---- MODULE Spec2Model ----
(***************************************************************************)
(* Banner batch generator (BannerBatchPage): a template document with      *)
(* data-field slots is bound to a sequence of records, record by record,   *)
(* inside one hidden export iframe; each bound record is rasterized and    *)
(* collected into a ZIP archive.                                           *)
(*                                                                         *)
(* Strings of the program are tuples of one-character strings, so that     *)
(* length, prefix tests and concatenation are computed as the code does.   *)
(* JSON values are tagged: S(s) a string, N(n) a number, A(a) an array of  *)
(* strings.  A record (BannerData) is a function from the field names it   *)
(* holds to values; a field that is undefined is outside its DOMAIN.       *)
(***************************************************************************)
EXTENDS Integers, Sequences, FiniteSets, TLC

\* ------------------------------------------------------------------ bounds
MaxClock == 1        \* minutes the wall clock may advance
MaxUser == 3         \* user gestures (uploads, clicks, typing, navigation) per session
MaxRuns == 1         \* "generate all" runs per session

\* ------------------------------------------------------- strings and values
S(s) == [t |-> "str", v |-> s]
N(n) == [t |-> "num", v |-> n]
A(a) == [t |-> "arr", v |-> a]

Digits == <<"0", "1", "2", "3", "4", "5", "6", "7", "8", "9">>

Max2(a, b) == IF a >= b THEN a ELSE b
Min2(a, b) == IF a <= b THEN a ELSE b

RECURSIVE NatToStr(_)
NatToStr(n) == IF n < 10 THEN <<Digits[n + 1]>>
               ELSE NatToStr(n \div 10) \o <<Digits[(n % 10) + 1]>>

\* String(value) of a JSON scalar
ToStr(val) ==
    IF val.t = "num"
    THEN (IF val.v < 0 THEN <<"-">> \o NatToStr(0 - val.v) ELSE NatToStr(val.v))
    ELSE val.v

DigitVal(c) == CHOOSE d \in 0..9 : Digits[d + 1] = c
IsDigit(c) == \E d \in 0..9 : Digits[d + 1] = c

RECURSIVE DigitsToNat(_)
DigitsToNat(s) == IF s = <<>> THEN 0
                  ELSE 10 * DigitsToNat(SubSeq(s, 1, Len(s) - 1)) + DigitVal(s[Len(s)])

\* Number(value): a number, or NaN for a string that is no decimal numeral
NaN == [nan |-> TRUE, v |-> 0]
Num(n) == [nan |-> FALSE, v |-> n]
ToNumber(val) ==
    IF val.t = "num" THEN Num(val.v)
    ELSE LET s == val.v IN
         IF s = <<>> THEN Num(0)
         ELSE IF \A i \in 1..Len(s) : IsDigit(s[i]) THEN Num(DigitsToNat(s))
         ELSE IF Len(s) > 1 /\ s[1] = "-" /\ \A i \in 2..Len(s) : IsDigit(s[i])
              THEN Num(0 - DigitsToNat(Tail(s)))
         ELSE NaN

\* Array(qty) throws a RangeError unless qty is a non-negative integer
ArrayThrows(q) == q.nan \/ q.v < 0

Has(r, f) == f \in DOMAIN r

\* sequence helpers
InsertAt(s, k, x) == SubSeq(s, 1, k - 1) \o <<x>> \o SubSeq(s, k, Len(s))
Fill(n, x) == [i \in 1..n |-> x]
IsBlank(s) == \A i \in 1..Len(s) : s[i] = " "

\* ------------------------------------------------- the render target (DOM)
\* A document realized from the template:
\*   title   text content of the element [data-field="title"]
\*   logo    src of the <img data-field="logo_src">
\*   price   the [data-field-int] element: present, its class list and child nodes
\*   product the .product container: present, its <img> children (src, display:none, class)
\*   gift    the .giftproducts container: present, its <img> children
\*           (src, the N of class giftproductsimg-N, the k of data-field gift_products_src_k)
\*   hl      the slots that carry the field-highlight class
TextNode(s) == [tag |-> "text", cls |-> {}, text |-> s]
Span(c, s) == [tag |-> "span", cls |-> c, text |-> s]
SignNode == Span({"sign"}, <<"Y">>)

HasCls(n, c) == n.tag = "span" /\ c \in n.cls
HasAny(n, C) == n.tag = "span" /\ n.cls \cap C # {}
IntCls == {"price-int-2", "price-int-3"}
DecCls == {"price-decimal-2", "price-decimal-3"}
IsIntSpan(n) == HasAny(n, IntCls)
IsDecSpan(n) == HasAny(n, DecCls)
IsSign(n) == HasCls(n, "sign")

\* querySelector over the children: the index of the first child that carries
\* a class of C, 0 when there is none
FirstIdx(kids, C) ==
    IF \E i \in 1..Len(kids) : HasAny(kids[i], C)
    THEN CHOOSE i \in 1..Len(kids) :
            HasAny(kids[i], C) /\ \A j \in 1..(i - 1) : ~HasAny(kids[j], C)
    ELSE 0

\* querySelector('.a') || querySelector('.b') over the children
FindEither(kids, a, b) ==
    IF FirstIdx(kids, {a}) # 0 THEN FirstIdx(kids, {a}) ELSE FirstIdx(kids, {b})

\* where a new integer span goes: after the sign and the text nodes and signs
\* that follow it, or at the front when there is no sign
IntInsertPos(kids) ==
    LET sg == FirstIdx(kids, {"sign"}) IN
    IF sg = 0 THEN 1
    ELSE CHOOSE j \in (sg + 1)..(Len(kids) + 1) :
            /\ (j = Len(kids) + 1 \/ ~(kids[j].tag = "text" \/ IsSign(kids[j])))
            /\ \A k \in (sg + 1)..(j - 1) : kids[k].tag = "text" \/ IsSign(kids[k])

\* remove all but the first node that carries a class of C
KeepFirst(kids, C) ==
    LET f == FirstIdx(kids, C)
        keep == {i \in 1..Len(kids) : ~HasAny(kids[i], C) \/ i = f}
        RECURSIVE Build(_)
        Build(i) == IF i > Len(kids) THEN <<>>
                    ELSE (IF i \in keep THEN <<kids[i]>> ELSE <<>>) \o Build(i + 1)
    IN Build(1)

\* remove the legacy nodes that follow the sign: non-blank text nodes and
\* .decimal elements that carry no price-decimal-* class
CleanLegacy(kids) ==
    LET sg == FirstIdx(kids, {"sign"})
        Drop(i) == /\ sg # 0 /\ i > sg
                   /\ \/ (kids[i].tag = "text" /\ ~IsBlank(kids[i].text))
                      \/ (HasCls(kids[i], "decimal") /\ ~IsDecSpan(kids[i]))
        RECURSIVE Build(_)
        Build(i) == IF i > Len(kids) THEN <<>>
                    ELSE (IF Drop(i) THEN <<>> ELSE <<kids[i]>>) \o Build(i + 1)
    IN Build(1)

\* updatePriceFields on the price element
updatePriceEl(el, intValue, decimalValue) ==
    LET is2Digits == Len(intValue) <= 2
        targetIntClass == IF is2Digits THEN "price-int-2" ELSE "price-int-3"
        targetDecimalClass == IF is2Digits THEN "price-decimal-2" ELSE "price-decimal-3"
        targetBaseClass == IF is2Digits THEN "price--2digits" ELSE "price--3digits"
        cls1 == (el.cls \ {"price--2digits", "price--3digits"}) \cup {targetBaseClass}
        \* integer span: found (class switched) or created
        pi0 == FindEither(el.kids, "price-int-2", "price-int-3")
        pi == IF pi0 = 0 THEN IntInsertPos(el.kids) ELSE pi0
        k1 == IF pi0 = 0
              THEN InsertAt(el.kids, pi, Span({targetIntClass}, intValue))
              ELSE [el.kids EXCEPT ![pi] =
                      Span((@.cls \ {"price-int-2", "price-int-3"}) \cup {targetIntClass},
                           intValue)]
        \* decimal span: found (class switched) or created after the integer span
        finalDecimalValue == IF Len(decimalValue) > 0 /\ decimalValue[1] = "."
                             THEN decimalValue ELSE <<".">> \o decimalValue
        pd0 == FindEither(k1, "price-decimal-2", "price-decimal-3")
        k2 == IF pd0 = 0
              THEN InsertAt(k1, pi + 1, Span({targetDecimalClass}, finalDecimalValue))
              ELSE [k1 EXCEPT ![pd0] =
                      Span((@.cls \ {"price-decimal-2", "price-decimal-3"})
                              \cup {targetDecimalClass},
                           finalDecimalValue)]
        k3 == CleanLegacy(k2)
        k4 == KeepFirst(KeepFirst(k3, IntCls), DecCls)
    IN [present |-> TRUE, cls |-> cls1, kids |-> k4]

updatePriceFields(doc, intValue, decimalValue) ==
    IF ~doc.price.present THEN doc
    ELSE [doc EXCEPT !.price = updatePriceEl(@, intValue, decimalValue)]

\* ------------------------------------------------------------------- bind
Img(src, hidden, cls) == [src |-> src, hidden |-> hidden, cls |-> cls]
GiftImg(src, n, k) == [src |-> src, n |-> n, k |-> k]

\* baseImgs: the sources a group is given, from a string or an array
BaseImgs(rawValue) ==
    IF rawValue.t = "arr" THEN rawValue.v
    ELSE IF ToStr(rawValue) # <<>> /\ ~(rawValue.t = "num" /\ rawValue.v = 0)
         THEN <<ToStr(rawValue)>>
    ELSE <<>>

\* the override of field f if the overlay holds one, else the record's value
Pick(data, edits, f) == IF Has(edits, f) THEN S(edits[f]) ELSE data[f]
Given(data, edits, f) == Has(edits, f) \/ Has(data, f)

\* imgs: one source repeated qty times, or the first max(1, qty) of several
GroupImgs(baseImgs, qty) ==
    IF Len(baseImgs) = 0 THEN <<>>
    ELSE IF Len(baseImgs) = 1 THEN Fill(qty.v, baseImgs[1])
    ELSE IF qty.nan THEN <<>>
    ELSE SubSeq(baseImgs, 1, Min2(Len(baseImgs), Max2(1, qty.v)))

GroupThrows(baseImgs, qty) == Len(baseImgs) = 1 /\ ArrayThrows(qty)

\* product_main_src: the quantity defaults to the number of sources, else 1
ProductBase(data, edits) == BaseImgs(Pick(data, edits, "product_main_src"))
ProductQty(data, edits) ==
    IF Given(data, edits, "product_main_qty")
    THEN ToNumber(Pick(data, edits, "product_main_qty"))
    ELSE Num(IF Len(ProductBase(data, edits)) # 0 THEN Len(ProductBase(data, edits)) ELSE 1)

\* reuse the container's <img> nodes, clone the last one while too few, set the
\* sources of the first Len(imgs) and show them, hide the rest; build new nodes
\* only when the container holds no <img>
ReconcileImgs(templateImgs, imgs) ==
    IF Len(templateImgs) > 0
    THEN LET last == templateImgs[Len(templateImgs)]
             grown == [i \in 1..Max2(Len(templateImgs), Len(imgs)) |->
                          IF i <= Len(templateImgs) THEN templateImgs[i] ELSE last]
         IN [i \in 1..Len(grown) |->
                IF i <= Len(imgs) THEN Img(imgs[i], FALSE, grown[i].cls)
                ELSE Img(grown[i].src, TRUE, grown[i].cls)]
    ELSE [i \in 1..Len(imgs) |-> Img(imgs[i], FALSE, "")]

applyProduct(doc, data, edits) ==
    IF Has(data, "product_main_src") /\ doc.product.present
    THEN [doc EXCEPT !.product.imgs =
             ReconcileImgs(@, GroupImgs(ProductBase(data, edits), ProductQty(data, edits)))]
    ELSE doc

productThrows(doc, data, edits) ==
    /\ Has(data, "product_main_src") /\ doc.product.present
    /\ GroupThrows(ProductBase(data, edits), ProductQty(data, edits))

\* gift_products_src, else gift_products_src_1 + gift_products_qty_1: the
\* container is emptied and rebuilt; the quantity defaults to 1
GiftBase(data, edits) == BaseImgs(Pick(data, edits, "gift_products_src"))
GiftQty(data, edits, f) ==
    IF Given(data, edits, f) THEN ToNumber(Pick(data, edits, f)) ELSE Num(1)

GiftNodes(imgs) == [i \in 1..Len(imgs) |-> GiftImg(imgs[i], Len(imgs), i)]

applyGift(doc, data, edits) ==
    IF Has(data, "gift_products_src")
    THEN IF doc.gift.present
         THEN [doc EXCEPT !.gift.imgs =
                  GiftNodes(GroupImgs(GiftBase(data, edits),
                                      GiftQty(data, edits, "gift_products_qty")))]
         ELSE doc
    ELSE IF Has(data, "gift_products_src_1") /\ doc.gift.present
    THEN [doc EXCEPT !.gift.imgs =
             GiftNodes(Fill(GiftQty(data, edits, "gift_products_qty_1").v,
                            ToStr(Pick(data, edits, "gift_products_src_1"))))]
    ELSE doc

giftThrows(doc, data, edits) ==
    IF Has(data, "gift_products_src")
    THEN doc.gift.present
         /\ GroupThrows(GiftBase(data, edits), GiftQty(data, edits, "gift_products_qty"))
    ELSE /\ Has(data, "gift_products_src_1") /\ doc.gift.present
         /\ ArrayThrows(GiftQty(data, edits, "gift_products_qty_1"))

\* element.textContent = v or element.src = v on the element [data-field=f]
SetField(doc, f, v) ==
    IF f = "title" THEN [doc EXCEPT !.title = v]
    ELSE IF f = "logo_src" THEN [doc EXCEPT !.logo = v]
    ELSE IF f = "gift_products_src_1" /\ doc.gift.present /\ Len(doc.gift.imgs) > 0
            /\ doc.gift.imgs[1].k = 1
         THEN [doc EXCEPT !.gift.imgs[1].src = v]
    ELSE doc

SpecialFields == {"sec_price_int", "sec_price_decimal", "product_main_src", "gift_products_src"}

\* set every field of fs to its value in vals (the fields name distinct elements)
RECURSIVE SetAll(_, _, _)
SetAll(doc, fs, vals) ==
    IF fs = {} THEN doc
    ELSE LET f == CHOOSE x \in fs : TRUE
         IN SetAll(SetField(doc, f, vals[f]), fs \ {f}, vals)

\* the two closing loops: every scalar field of the record (override first),
\* then the overrides of fields the record does not hold
applyFields(doc, data, edits) ==
    LET fromData == {f \in DOMAIN data : f \notin SpecialFields /\ data[f].t # "arr"}
        v1 == [f \in fromData |-> IF Has(edits, f) THEN edits[f] ELSE ToStr(data[f])]
        fromEdits == {f \in DOMAIN edits : ~Has(data, f) /\ f \notin SpecialFields}
        v2 == [f \in fromEdits |-> edits[f]]
    IN SetAll(SetAll(doc, fromData, v1), fromEdits, v2)

applyPrice(doc, data, edits) ==
    IF Has(data, "sec_price_int") /\ Has(data, "sec_price_decimal")
    THEN updatePriceFields(doc, ToStr(Pick(data, edits, "sec_price_int")),
                                ToStr(Pick(data, edits, "sec_price_decimal")))
    ELSE doc

\* applyJsonDataToIframe: the sections in order; an exception thrown by a
\* section is caught at the end and leaves the later sections undone
applyJsonDataToIframe(doc, data, edits) ==
    LET d1 == applyPrice(doc, data, edits) IN
    IF productThrows(d1, data, edits) THEN d1
    ELSE LET d2 == applyProduct(d1, data, edits) IN
         IF giftThrows(d2, data, edits) THEN d2
         ELSE applyFields(applyGift(d2, data, edits), data, edits)

\* -------------------------------------------------------------- the template
\* The one template of the model: a title, a logo image, a price in the
\* 2-digit structure, one product image and one gift image.
DefaultDoc ==
    [title |-> <<"T">>,
     logo |-> <<"l">>,
     price |-> [present |-> TRUE, cls |-> {"price--2digits"},
                kids |-> <<SignNode, Span({"price-int-2"}, <<"9">>),
                           Span({"price-decimal-2"}, <<".", "9">>)>>],
     product |-> [present |-> TRUE, imgs |-> <<Img(<<"p">>, FALSE, "tpl")>>],
     gift |-> [present |-> TRUE, imgs |-> <<GiftImg(<<"g">>, 1, 1)>>],
     hl |-> {}]

\* the text of the first node that carries a class of C, "" when there is none
TextOf(kids, C) ==
    IF FirstIdx(kids, C) = 0 THEN <<>> ELSE kids[FirstIdx(kids, C)].text

\* text.replace(/^\./, '')
StripDot(s) == IF Len(s) > 0 /\ s[1] = "." THEN Tail(s) ELSE s

\* the price as shown: textContent of .price-int-2 || .price-int-3, and of the
\* decimal span (the legacy structure is not read here)
ShownInt(doc) ==
    IF TextOf(doc.price.kids, {"price-int-2"}) # <<>>
    THEN TextOf(doc.price.kids, {"price-int-2"})
    ELSE TextOf(doc.price.kids, {"price-int-3"})
ShownDec(doc) ==
    IF TextOf(doc.price.kids, {"price-decimal-2"}) # <<>>
    THEN TextOf(doc.price.kids, {"price-decimal-2"})
    ELSE TextOf(doc.price.kids, {"price-decimal-3"})

VisibleSrcs(imgs) ==
    LET RECURSIVE Build(_)
        Build(i) == IF i > Len(imgs) THEN <<>>
                    ELSE (IF imgs[i].hidden THEN <<>> ELSE <<imgs[i].src>>) \o Build(i + 1)
    IN Build(1)

\* extractTemplateDataFromHtml: the record that holds the template's own values
extractTemplateDataFromHtml(doc) ==
    LET vis == VisibleSrcs(doc.product.imgs)
        gs == [i \in 1..Len(doc.gift.imgs) |-> doc.gift.imgs[i].src]
        base == [title |-> S(doc.title), logo_src |-> S(doc.logo)]
        pint == IF doc.price.present /\ ShownInt(doc) # <<>>
                THEN [sec_price_int |-> S(ShownInt(doc))] ELSE <<>>
        pdec == IF doc.price.present /\ StripDot(ShownDec(doc)) # <<>>
                THEN [sec_price_decimal |-> S(StripDot(ShownDec(doc)))] ELSE <<>>
        prod == IF doc.product.present /\ Len(vis) > 0
                THEN [product_main_src |-> IF Len(vis) = 1 THEN S(vis[1]) ELSE A(vis),
                      product_main_qty |-> N(Len(vis))]
                ELSE <<>>
        gift == IF doc.gift.present /\ Len(gs) > 0
                THEN [gift_products_src |-> IF Len(gs) = 1 THEN S(gs[1]) ELSE A(gs),
                      gift_products_qty |-> N(Len(gs)),
                      gift_products_src_1 |-> S(gs[1])]
                ELSE <<>>
    IN base @@ pint @@ pdec @@ prod @@ gift

\* ------------------------------------------------------------ the inputs
EmptyRecord == <<>>
RecA == [id |-> S(<<"a">>), title |-> S(<<"X">>), product_main_src |-> S(<<"q">>),
         sec_price_int |-> N(100), sec_price_decimal |-> S(<<"5">>)]
RecB == [id |-> S(<<"a">>), title |-> S(<<"Y">>)]
RecC == [title |-> S(<<"Z">>)]
RecD == [id |-> S(<<"d">>), logo_src |-> S(<<"m">>)]

\* the arrays a JSON file may hold, and the records a ZIP may carry
JsonBatches == {<<RecA, RecB>>, <<RecC, RecA, RecB>>}
ZipRecords == {<<RecC, RecD>>}

\* the fields the panel offers a text input for, and what the user types
EditFields == {"title", "sec_price_int"}
EditValue(f) == IF f = "title" THEN <<"E">> ELSE <<"7", "7", "7">>
IsImageField(f) == f \in {"logo_src", "product_main_src", "gift_products_src_1"}
TemplateFieldNames == {"title", "logo_src", "sec_price_int", "sec_price_decimal"}

\* ---------------------------------------------------------- field discovery
\* A marker element of the template is the record of the attributes it
\* carries: field for data-field, label for data-label, int for data-field-int,
\* dec for data-field-decimal. A field of the panel is [name, label] or, without
\* a label, [name].
PriceIntLabel == "price-int"
PriceDecLabel == "price-dec"

HasName(fieldMap, name) == \E k \in DOMAIN fieldMap : fieldMap[k].name = name

\* variant: the entry of a name already there is replaced, the last element of
\* a name giving the label
MapSetLast(fieldMap, name, entry) ==
    IF HasName(fieldMap, name)
    THEN [k \in DOMAIN fieldMap |-> IF fieldMap[k].name = name THEN entry ELSE fieldMap[k]]
    ELSE Append(fieldMap, entry)

\* if (!fieldMap.has(name)) fieldMap.set(name, entry): a Map lists its entries
\* in the order in which their keys were first set
MapSet(fieldMap, name, entry) ==
    IF HasName(fieldMap, name) THEN fieldMap ELSE Append(fieldMap, entry)

\* { name, label } with label = el.getAttribute("data-label") || undefined
PlainField(el) ==
    IF Has(el, "label") /\ el.label # ""
    THEN [name |-> el.field, label |-> el.label]
    ELSE [name |-> el.field]

\* querySelectorAll("[data-field]").forEach
RECURSIVE PlainPass(_, _)
PlainPass(els, fieldMap) ==
    IF els = <<>> THEN fieldMap
    ELSE LET el == Head(els)
         IN PlainPass(Tail(els),
                      IF Has(el, "field") /\ el.field # ""
                      THEN MapSet(fieldMap, el.field, PlainField(el))
                      ELSE fieldMap)

\* querySelectorAll("[data-field-int]").forEach
RECURSIVE PricePass(_, _)
PricePass(els, fieldMap) ==
    IF els = <<>> THEN fieldMap
    ELSE LET el == Head(els)
             m1 == IF Has(el, "int") /\ el.int # ""
                   THEN MapSet(fieldMap, el.int, [name |-> el.int, label |-> PriceIntLabel])
                   ELSE fieldMap
             m2 == IF Has(el, "int") /\ Has(el, "dec") /\ el.dec # ""
                   THEN MapSet(m1, el.dec, [name |-> el.dec, label |-> PriceDecLabel])
                   ELSE m1
         IN PricePass(Tail(els), m2)

\* Array.from(fieldMap.values()) after the two passes
discoverFields(els) == PricePass(els, PlainPass(els, <<>>))

\* the marker elements of the template that DefaultDoc is the document of
DefaultMarkers ==
    <<[field |-> "title"], [field |-> "logo_src"],
      [int |-> "sec_price_int", dec |-> "sec_price_decimal"],
      [field |-> "product_main_src"], [field |-> "gift_products_src_1"]>>

\* the template files field discovery is applied to
MaxMarkers == 3
MarkerEls ==
    {[field |-> "title", label |-> "L1"], [field |-> "title", label |-> "L2"],
     [field |-> "logo_src"], [field |-> ""],
     [int |-> "sec_price_int", dec |-> "sec_price_decimal"],
     [field |-> "sec_price_int", label |-> "L3"],
     [int |-> "", dec |-> "title"]}
MarkerDocs == UNION {[1..n -> MarkerEls] : n \in 0..MaxMarkers}

\* ------------------------------------------------------- asset resolution
\* Paths, references and payloads are strings, character by character.
StartsWith(s, p) == Len(s) >= Len(p) /\ SubSeq(s, 1, Len(p)) = p
Strip(s, p) == IF StartsWith(s, p) THEN SubSeq(s, Len(p) + 1, Len(s)) ELSE s
DotSlash == <<".", "/">>
DotDotSlash == <<".", ".", "/">>
DataScheme == <<"d", "a", "t", "a", ":">>
HttpScheme == <<"h", "t", "t", "p", ":", "/", "/">>
HttpsScheme == <<"h", "t", "t", "p", "s", ":", "/", "/">>

\* the positions of "/" in s, and s.split("/").pop()
Slashes(s) == {i \in 1..Len(s) : s[i] = "/"}
LastSlash(s) == IF Slashes(s) = {} THEN 0
                ELSE CHOOSE i \in Slashes(s) : \A j \in Slashes(s) : j <= i
Pop(s) == SubSeq(s, LastSlash(s) + 1, Len(s))
\* name.split("/").slice(0, -1).join("/")
DirOf(name) == SubSeq(name, 1, LastSlash(name) - 1)

\* a Record<string, string>: map[key] = value, and map[key] where it is truthy
Put(map, key, value) ==
    [k \in DOMAIN map \cup {key} |-> IF k = key THEN value ELSE map[k]]
Present(map, key) == key \in DOMAIN map /\ map[key] # <<>>

\* a || b || ... over the candidate keys, null when none is present
RECURSIVE FirstOf(_, _)
FirstOf(map, keys) ==
    IF keys = <<>> THEN <<>>
    ELSE IF Present(map, Head(keys)) THEN map[Head(keys)]
    ELSE FirstOf(map, Tail(keys))

\* `data:${mime};base64,${base64}`
Mime(kind) == IF kind = "image" THEN <<"i", "/", "p">> ELSE <<"f", "/", "t">>
DataUrl(entry) == DataScheme \o Mime(entry.kind) \o <<";">> \o entry.body

\* the keys one archive entry is stored under, in the order they are written
EntryKeys(name, htmlDir) ==
    LET normPath == Strip(name, DotSlash)
        htmlDirWithSlash == IF htmlDir # <<>> THEN htmlDir \o <<"/">> ELSE <<>>
        relativePath == SubSeq(name, Len(htmlDir) + 2, Len(name))
        fileName == IF Pop(normPath) # <<>> THEN Pop(normPath) ELSE normPath
    IN  <<name, normPath, DotSlash \o normPath>>
        \o (IF htmlDir # <<>> /\ StartsWith(name, htmlDirWithSlash)
            THEN <<relativePath, DotSlash \o relativePath>> ELSE <<>>)
        \o (IF fileName # normPath THEN <<fileName>> ELSE <<>>)

RECURSIVE PutAll(_, _, _)
PutAll(map, keys, value) ==
    IF keys = <<>> THEN map
    ELSE PutAll(Put(map, Head(keys), value), Tail(keys), value)

\* the map built over the entries of one kind, later entries overwriting
RECURSIVE BuildMap(_, _, _, _)
BuildMap(map, files, kind, htmlDir) ==
    IF files = <<>> THEN map
    ELSE BuildMap(IF Head(files).kind = kind
                  THEN PutAll(map, EntryKeys(Head(files).name, htmlDir),
                              DataUrl(Head(files)))
                  ELSE map,
                  Tail(files), kind, htmlDir)

\* { ...imageMap, ...fontMap }
Merge(m1, m2) ==
    [k \in DOMAIN m1 \cup DOMAIN m2 |-> IF k \in DOMAIN m2 THEN m2[k] ELSE m1[k]]

IsInlineOrAbsolute(src) ==
    \/ StartsWith(src, DataScheme)
    \/ StartsWith(src, HttpScheme)
    \/ StartsWith(src, HttpsScheme)

\* the src one <img> is left with
replaceHtmlImgSrcWithBase64(src, imageMap) ==
    IF IsInlineOrAbsolute(src) THEN src
    ELSE LET normalizedPath == Strip(Strip(src, DotSlash), DotDotSlash)
             fileName == IF Pop(normalizedPath) # <<>> THEN Pop(normalizedPath)
                         ELSE normalizedPath
             dataUrl ==
                 FirstOf(imageMap,
                         <<src, normalizedPath, DotSlash \o normalizedPath, fileName>>
                         \o (IF StartsWith(normalizedPath, <<"/">>)
                             THEN <<Tail(normalizedPath)>> ELSE <<>>))
         IN  IF dataUrl = <<>> THEN src ELSE dataUrl

\* the path one url(...) is left with
replaceCssUrlWithBase64(urlPath, resourceMap) ==
    IF IsInlineOrAbsolute(urlPath) THEN urlPath
    ELSE LET normalizedPath == Strip(Strip(urlPath, DotSlash), DotDotSlash)
             dataUrl ==
                 FirstOf(resourceMap,
                         <<urlPath, normalizedPath, DotSlash \o normalizedPath,
                           Pop(normalizedPath)>>)
         IN  IF dataUrl = <<>> THEN urlPath ELSE dataUrl

\* the string one record value, or one element of an array value, is left with
ProcessPath(path, imageMap) ==
    IF path = <<>> THEN path
    ELSE LET normalizedPath == Strip(path, DotSlash)
             base64Url ==
                 FirstOf(imageMap,
                         <<path, normalizedPath, DotSlash \o normalizedPath,
                           Pop(normalizedPath)>>)
         IN  IF base64Url = <<>> THEN path ELSE base64Url

ProcessValue(value, imageMap) ==
    IF value.t = "arr"
    THEN A([i \in DOMAIN value.v |-> ProcessPath(value.v[i], imageMap)])
    ELSE IF value.t = "str" THEN S(ProcessPath(value.v, imageMap))
    ELSE value

ProcessItem(item, imageMap) ==
    [key \in DOMAIN item |-> ProcessValue(item[key], imageMap)]

ProcessData(data, imageMap) ==
    [i \in DOMAIN data |-> ProcessItem(data[i], imageMap)]

\* the ZIP archive: the name of its main HTML entry, its image and font
\* entries, the src of the template's images, the url(...) paths of its
\* stylesheets and the records of its JSON entry
HtmlDir(zip) == DirOf(zip.html)
ImageMap(zip) == BuildMap(<<>>, zip.files, "image", HtmlDir(zip))
FontMap(zip) == BuildMap(<<>>, zip.files, "font", HtmlDir(zip))
ResourceMap(zip) == Merge(ImageMap(zip), FontMap(zip))

ProcessedOf(zip) ==
    [html |-> [i \in DOMAIN zip.imgs |->
                  replaceHtmlImgSrcWithBase64(zip.imgs[i], ImageMap(zip))],
     css |-> [i \in DOMAIN zip.urls |->
                  replaceCssUrlWithBase64(zip.urls[i], ResourceMap(zip))]]

DefaultZips ==
    {[html |-> <<"i">>, files |-> <<>>, imgs |-> <<>>, urls |-> <<>>,
      records |-> recs] : recs \in ZipRecords}
NoProcessed == [html |-> <<>>, css |-> <<>>]

\* the archives asset resolution is applied to
MaxFiles == 2
ZipHtmlNames == {<<"i">>, <<"t", "/", "i">>}
ZipFileNames ==
    {<<"x">>, <<"a", "/", "x">>, <<"t", "/", "x">>, <<"t", "/", "a", "/", "x">>,
     <<"a", "/", "w">>}
ZipFileKinds == {"image", "font"}
ZipFileLists ==
    UNION {{[i \in 1..n |-> [name |-> names[i], kind |-> kinds[i],
                             body |-> NatToStr(i)]] :
               names \in [1..n -> ZipFileNames], kinds \in [1..n -> ZipFileKinds]} :
           n \in 0..MaxFiles}
ZipRefs ==
    {<<"x">>, DotSlash \o <<"x">>, DotDotSlash \o <<"x">>,
     <<"a", "/", "x">>, DotSlash \o <<"a", "/", "x">>,
     DotDotSlash \o <<"a", "/", "x">>, <<"/", "a", "/", "x">>,
     <<"t", "/", "a", "/", "x">>, <<"y">>, <<"a", "/", "w">>, <<"w">>,
     DataScheme \o <<"i", "/", "p", ";", "1">>,
     HttpScheme \o <<"h", "/", "x">>, HttpsScheme \o <<"h", "/", "x">>}
ZipValues(ref) == {S(ref), A(<<ref>>)}
ZipArchives ==
    UNION {{[html |-> h, files |-> fs, imgs |-> <<r>>, urls |-> <<r>>,
             records |-> <<[product_main_src |-> v]>>] :
               h \in ZipHtmlNames, fs \in ZipFileLists, v \in ZipValues(r)} :
           r \in ZipRefs}

\* ------------------------------------------------------------------ state
VARIABLES
    htmlContent,        \* a template is loaded
    templateAssets,     \* the unified template state is set
    jsonData,           \* the loaded batch
    currentIndex,       \* the cursor
    editedValues,       \* the edit overlay: index -> (field -> text)
    selectedField,      \* the selected field, "" for none
    selectedFieldValue, \* the value shown in the field editor
    isGenerating,       \* a batch run is in flight
    error, success,     \* the messages shown
    exportDoc,          \* the document of the hidden export iframe
    previewDoc,         \* the document of the single-view preview iframe
    previewTimer,       \* the single-view effect's 100 ms timer is pending
    clock,              \* wall clock, minutes
    pc,                 \* where handleGenerateAll is
    run,                \* its locals: i, zip, successCount, bannerIndex, timestamp, closure
    download,           \* the archive handed to the browser, if any
    nUser,              \* user gestures so far
    nRuns,              \* batch runs started so far
    htmlFile,           \* the marker elements of the template file at hand
    templateFields,     \* the fields listed in the panel
    zipFile,            \* the ZIP archive the user picks
    processed,          \* the references of the template the last ZIP upload inlined
    isMultiView,        \* the 2x2 grid is shown instead of the single preview
    selectedBannerIndex, \* the record selected in the grid, NoBanner for null
    multi,              \* the four iframes of the grid
    multiTimer,         \* the multi-view effect's 100 ms timer is pending
    highlightTimer      \* the re-highlight effect's 200 ms timer is pending

vars == <<htmlContent, templateAssets, jsonData, currentIndex, editedValues,
          selectedField, selectedFieldValue, isGenerating, error, success,
          exportDoc, previewDoc, previewTimer, clock, pc, run, download,
          nUser, nRuns, htmlFile, templateFields, zipFile, processed,
          isMultiView, selectedBannerIndex, multi, multiTimer, highlightTimer>>

\* selectedBannerIndex = null
NoBanner == 0 - 1
\* the cells of the 2x2 grid; cell idx shows the record currentIndex + idx
Cells == 0..3
\* one iframe of the grid: mounted or not, the record last bound into it
\* (NoBanner for the plain template) and its document
NoCell == [mounted |-> FALSE, rec |-> NoBanner, doc |-> DefaultDoc]
FreshCell == [mounted |-> TRUE, rec |-> NoBanner, doc |-> DefaultDoc]
NoCells == [idx \in Cells |-> NoCell]

\* the locals of handleGenerateAll: the loop index, the archive, the counters,
\* the timestamp, the jsonData and editedValues its closure holds, the name of
\* the record in hand, the indices logged as failed, and how far the record in
\* hand has come (bound, delay elapsed, fonts settled); added are the indices
\* whose blob zip.file has taken, passed those the loop passed over for want
\* of an export iframe; heldDoc is the document the loop still holds
\* when its iframe was unmounted after the loop had fetched it
NoRun == [i |-> 0, zip |-> <<>>, successCount |-> 0, bannerIndex |-> 0,
          timestamp |-> <<>>, data |-> <<>>, edits |-> <<>>, fileName |-> <<>>,
          failed |-> {}, added |-> {}, passed |-> {}, boundIdx |-> -1, delayElapsed |-> FALSE,
          fonts |-> "no", detached |-> FALSE, heldDoc |-> DefaultDoc]
NoDownload == [made |-> FALSE, name |-> <<>>, entries |-> <<>>, reported |-> 0]

Init ==
    /\ htmlContent = FALSE /\ templateAssets = FALSE
    /\ jsonData = <<>> /\ currentIndex = 0
    /\ editedValues = <<>>
    /\ selectedField = "" /\ selectedFieldValue = <<>>
    /\ isGenerating = FALSE /\ error = "" /\ success = ""
    /\ exportDoc = DefaultDoc /\ previewDoc = DefaultDoc
    /\ previewTimer = FALSE
    /\ clock = 0
    /\ pc = "idle" /\ run = NoRun /\ download = NoDownload
    /\ nUser = 0 /\ nRuns = 0
    /\ htmlFile = DefaultMarkers /\ templateFields = <<>>
    /\ zipFile \in DefaultZips /\ processed = NoProcessed
    /\ isMultiView = FALSE /\ selectedBannerIndex = NoBanner
    /\ multi = NoCells /\ multiTimer = FALSE
    /\ highlightTimer = (selectedField # "" /\ htmlContent)

\* records are indexed from 0 as in the code: record i is jsonData[i + 1]
Rec(data, i) == data[i + 1]
EditsOf(ev, i) == IF i \in DOMAIN ev THEN ev[i] ELSE <<>>
SetEdit(ev, i, f, v) ==
    [j \in DOMAIN ev \cup {i} |->
        IF j = i
        THEN [g \in DOMAIN EditsOf(ev, i) \cup {f} |-> IF g = f THEN v ELSE EditsOf(ev, i)[g]]
        ELSE ev[j]]

\* the single-view effect: its dependencies, and the condition under which
\* it arms its timer; any change of a dependency clears and re-arms the timer
EffectDeps == <<jsonData, currentIndex, htmlContent, editedValues, selectedField, isMultiView>>
EffectCond ==
    ~isMultiView /\ Len(jsonData) > 0 /\ currentIndex >= 0 /\ currentIndex < Len(jsonData)
ArmTimer == previewTimer' = IF EffectDeps' # EffectDeps THEN EffectCond' ELSE previewTimer

\* ------------------------------------------------------- reading the preview
\* the legacy price structure: the text node after the sign, the .decimal span
LegacyInt(kids) ==
    LET sg == FirstIdx(kids, {"sign"}) IN
    IF sg # 0 /\ sg < Len(kids) /\ kids[sg + 1].tag = "text" THEN kids[sg + 1].text ELSE <<>>
LegacyDec(kids) == TextOf(kids, {"decimal"})

CurrentInt(doc) ==
    IF ShownInt(doc) = <<>> /\ ShownDec(doc) = <<>> THEN LegacyInt(doc.price.kids)
    ELSE ShownInt(doc)
CurrentDec(doc) ==
    IF ShownInt(doc) = <<>> /\ ShownDec(doc) = <<>> THEN LegacyDec(doc.price.kids)
    ELSE ShownDec(doc)

IsPriceField(f) == f \in {"sec_price_int", "sec_price_decimal"}
SlotOf(f) == IF IsPriceField(f) THEN "price" ELSE f

\* the element [data-field=f] exists in the document
HasElement(doc, f) ==
    \/ f \in {"title", "logo_src"}
    \/ (IsPriceField(f) /\ doc.price.present)
    \/ (f = "gift_products_src_1" /\ doc.gift.present /\ Len(doc.gift.imgs) > 0
        /\ doc.gift.imgs[1].k = 1)

\* what the element of field f shows
ReadField(doc, f) ==
    IF f = "title" THEN doc.title
    ELSE IF f = "logo_src" THEN doc.logo
    ELSE IF f = "sec_price_int" THEN CurrentInt(doc)
    ELSE IF f = "sec_price_decimal" THEN CurrentDec(doc)
    ELSE IF HasElement(doc, f) THEN doc.gift.imgs[1].src
    ELSE <<>>

NotFound == <<"?">>

\* updateFieldInDocument: write one field, a price part through updatePriceFields
updateFieldInDocument(doc, f, newValue, isPreview, isSelectedIframe) ==
    IF ~HasElement(doc, f) THEN doc
    ELSE LET hl1 == IF isPreview /\ isSelectedIframe
                    THEN (IF SlotOf(f) \in doc.hl THEN doc.hl ELSE {SlotOf(f)})
                    ELSE IF isPreview THEN doc.hl \ {SlotOf(f)}
                    ELSE doc.hl
             d1 == [doc EXCEPT !.hl = hl1]
         IN IF IsPriceField(f)
            THEN LET finalInt == IF f = "sec_price_int" THEN newValue ELSE CurrentInt(doc)
                     finalDec == IF f = "sec_price_decimal"
                                 THEN (IF Len(newValue) > 0 /\ newValue[1] = "."
                                       THEN newValue ELSE <<".">> \o newValue)
                                 ELSE CurrentDec(doc)
                 IN updatePriceFields(d1, finalInt, StripDot(finalDec))
            ELSE SetField(d1, f, newValue)

\* the wrapper of the page: bind into the export iframe and the preview iframe
BindExport(html, doc, data, edits) ==
    IF html THEN applyJsonDataToIframe(doc, data, edits) ELSE doc

\* ------------------------------------------------------------ the two views
\* isMultiView ? (selectedBannerIndex ?? currentIndex) : currentIndex
getActiveIndex ==
    IF isMultiView /\ selectedBannerIndex # NoBanner THEN selectedBannerIndex
    ELSE currentIndex

\* the grid renders an iframe in a cell when a template is loaded and a record
\* falls into the cell; an iframe that stays mounted keeps its document
Remount(cells, multiView, html, index, n) ==
    [idx \in Cells |->
        IF multiView /\ html /\ index + idx < n
        THEN (IF cells[idx].mounted THEN cells[idx] ELSE FreshCell)
        ELSE NoCell]

\* multiIframeRefs.current[offset] for offset = dataIndex - currentIndex in
\* 0..3, NoBanner when there is no such iframe
TargetCell(dataIndex) ==
    IF isMultiView /\ dataIndex - currentIndex \in Cells
       /\ multi[dataIndex - currentIndex].mounted
    THEN dataIndex - currentIndex
    ELSE NoBanner

\* clearAllFieldHighlights on the grid
ClearAllCells(cells) == [idx \in Cells |-> [cells[idx] EXCEPT !.doc.hl = {}]]

\* the element of field f gets the field-highlight class
HighlightIn(doc, f) ==
    [doc EXCEPT !.hl = IF HasElement(doc, f) THEN @ \cup {SlotOf(f)} ELSE @]
ValueIn(doc, f) == IF HasElement(doc, f) THEN ReadField(doc, f) ELSE NotFound

\* highlightElementInIframe(f, dataIndex) followed by
\* syncSelectedFieldValueFromIframe(f, dataIndex): the highlights are cleared
\* (in the grid and in previewIframeRef.current || iframeRef.current), then the
\* target is the cell of dataIndex, else the preview iframe, else the export
\* iframe
Highlighted(f, dataIndex) ==
    IF ~isMultiView
    THEN [cells |-> multi,
          preview |-> HighlightIn([previewDoc EXCEPT !.hl = {}], f),
          export |-> exportDoc,
          value |-> ValueIn(previewDoc, f)]
    ELSE LET cells0 == ClearAllCells(multi)
             export0 == [exportDoc EXCEPT !.hl = {}]
             cell == TargetCell(dataIndex)
         IN  IF cell # NoBanner
             THEN [cells |-> [cells0 EXCEPT ![cell].doc = HighlightIn(@, f)],
                   preview |-> previewDoc,
                   export |-> export0,
                   value |-> ValueIn(multi[cell].doc, f)]
             ELSE [cells |-> cells0,
                   preview |-> previewDoc,
                   export |-> HighlightIn(export0, f),
                   value |-> ValueIn(exportDoc, f)]

\* the multi-view effect and the re-highlight effect: their dependencies and
\* the conditions under which they arm their timers
MultiDeps == <<isMultiView, jsonData, currentIndex, htmlContent, editedValues,
               selectedBannerIndex>>
MultiCond == isMultiView /\ Len(jsonData) > 0 /\ htmlContent
HighlightDeps == <<selectedField, htmlContent, isMultiView, currentIndex, selectedBannerIndex>>
HighlightCond == selectedField # "" /\ htmlContent
SyncDeps == <<isMultiView, selectedBannerIndex, selectedField, currentIndex>>
SyncCond == isMultiView /\ selectedBannerIndex # NoBanner /\ selectedField # ""

\* what follows the render after a handler that left the banner selection at
\* sel and the grid at cells: the multi-view effect selects the top-left
\* banner when none is selected, the grid mounts and unmounts its iframes, and
\* the two timers are cleared and armed again when a dependency has changed
ArmView(sel, cells) ==
    /\ selectedBannerIndex' =
          IF isMultiView' /\ Len(jsonData') > 0 /\ htmlContent' /\ sel = NoBanner
          THEN currentIndex' ELSE sel
    /\ multi' = Remount(cells, isMultiView', htmlContent', currentIndex', Len(jsonData'))
    /\ multiTimer' = IF MultiDeps' # MultiDeps THEN MultiCond' ELSE multiTimer
    /\ highlightTimer' = IF HighlightDeps' # HighlightDeps THEN HighlightCond'
                         ELSE highlightTimer

\* the effect on selectedBannerIndex: in the grid, with a banner and a field
\* selected, syncSelectedFieldValueFromIframe(selectedField,
\* selectedBannerIndex) runs when a dependency has changed
SyncView ==
    selectedFieldValue' =
       IF SyncDeps' # SyncDeps /\ SyncCond'
       THEN LET offset == selectedBannerIndex' - currentIndex'
                doc == IF offset \in Cells /\ multi'[offset].mounted
                       THEN multi'[offset].doc ELSE exportDoc'
            IN  IF HasElement(doc, selectedField') THEN ReadField(doc, selectedField')
                ELSE selectedFieldValue
       ELSE selectedFieldValue

\* ----------------------------------------------------------------- uploads
HtmlUpload ==
    /\ nUser < MaxUser
    /\ nUser' = nUser + 1
    /\ htmlContent' = TRUE /\ templateAssets' = TRUE
    /\ jsonData' = <<extractTemplateDataFromHtml(DefaultDoc)>>
    /\ currentIndex' = 0
    /\ error' = "" /\ success' = "loaded"
    \* a changed htmlContent reloads both iframes and clears the selection
    /\ IF htmlContent
       THEN UNCHANGED <<exportDoc, previewDoc, selectedField, selectedFieldValue>>
       ELSE /\ exportDoc' = DefaultDoc /\ previewDoc' = DefaultDoc
            /\ selectedField' = "" /\ selectedFieldValue' = <<>>
    /\ templateFields' = discoverFields(htmlFile)
    /\ UNCHANGED <<isMultiView, zipFile, processed, htmlFile, editedValues, isGenerating, clock, pc, run,
                   download, nRuns>>
    /\ ArmTimer
    /\ ArmView(NoBanner, multi)

ZipUpload ==
    /\ nUser < MaxUser
    /\ jsonData' = <<EmptyRecord>> \o ProcessData(zipFile.records, ImageMap(zipFile))
    /\ processed' = ProcessedOf(zipFile)
    /\ nUser' = nUser + 1
    /\ htmlContent' = TRUE /\ templateAssets' = TRUE
    /\ currentIndex' = 0
    /\ error' = "" /\ success' = "loaded"
    /\ IF htmlContent
       THEN UNCHANGED <<exportDoc, previewDoc, selectedField, selectedFieldValue>>
       ELSE /\ exportDoc' = DefaultDoc /\ previewDoc' = DefaultDoc
            /\ selectedField' = "" /\ selectedFieldValue' = <<>>
    /\ templateFields' = discoverFields(htmlFile)
    /\ UNCHANGED <<isMultiView, zipFile, htmlFile, editedValues, isGenerating, clock, pc, run, download, nRuns>>
    /\ ArmTimer
    /\ ArmView(IF isMultiView THEN 0 ELSE NoBanner, multi)

JsonUpload ==
    /\ nUser < MaxUser
    /\ nUser' = nUser + 1
    /\ \E parsed \in JsonBatches :
          /\ jsonData' = parsed
          /\ exportDoc' = BindExport(htmlContent, exportDoc, parsed[1], EditsOf(editedValues, 0))
          /\ previewDoc' = IF isMultiView THEN previewDoc
                           ELSE BindExport(htmlContent, previewDoc, parsed[1],
                                           EditsOf(editedValues, 0))
    /\ currentIndex' = 0
    /\ error' = "" /\ success' = "loaded"
    /\ UNCHANGED <<isMultiView, zipFile, processed, htmlFile, templateFields, htmlContent, templateAssets, editedValues, selectedField,
                   isGenerating, clock, pc, run, download, nRuns>>
    /\ ArmTimer
    /\ ArmView(IF isMultiView THEN 0 ELSE NoBanner, multi)
    /\ SyncView

JsonUploadFail ==
    /\ nUser < MaxUser
    /\ nUser' = nUser + 1
    /\ jsonData' = <<>>
    /\ error' = "json" /\ success' = ""
    /\ UNCHANGED <<isMultiView, zipFile, processed, htmlFile, templateFields, htmlContent, templateAssets, currentIndex, editedValues, selectedField,
                   isGenerating, exportDoc, previewDoc, clock, pc, run,
                   download, nRuns>>
    /\ ArmTimer
    /\ ArmView(selectedBannerIndex, multi)
    /\ SyncView

\* ------------------------------------------------------------ field editing
\* a click on a field of the panel: select it (highlight, show its value) or
\* deselect it
FieldClick ==
    /\ htmlContent
    /\ nUser < MaxUser
    /\ nUser' = nUser + 1
    /\ UNCHANGED <<htmlContent, templateAssets, jsonData, currentIndex, editedValues,
                   isGenerating, error, success, clock, pc, run, download, nRuns, htmlFile,
                   templateFields, zipFile, processed, isMultiView>>
    /\ \E f \in TemplateFieldNames :
          IF selectedField = f
          THEN /\ selectedField' = "" /\ selectedFieldValue' = <<>>
               \* clearAllFieldHighlights
               /\ previewDoc' = IF isMultiView THEN previewDoc
                                ELSE [previewDoc EXCEPT !.hl = {}]
               /\ exportDoc' = IF isMultiView THEN [exportDoc EXCEPT !.hl = {}]
                               ELSE exportDoc
               /\ ArmTimer
               /\ ArmView(selectedBannerIndex,
                          IF isMultiView THEN ClearAllCells(multi) ELSE multi)
          ELSE LET h == Highlighted(f, getActiveIndex)
               IN  /\ selectedField' = f
                   /\ previewDoc' = h.preview
                   /\ exportDoc' = h.export
                   /\ selectedFieldValue' = h.value
                   /\ ArmTimer
                   /\ ArmView(selectedBannerIndex, h.cells)

\* typing into the editor of the selected field: updateFieldValue
UpdateFieldValue ==
    /\ htmlContent /\ selectedField \in EditFields /\ ~IsImageField(selectedField)
    /\ nUser < MaxUser
    /\ nUser' = nUser + 1
    /\ UNCHANGED <<htmlContent, templateAssets, jsonData, currentIndex, selectedField,
                   isGenerating, error, success, clock, pc, run, download, nRuns, htmlFile,
                   templateFields, zipFile, processed, isMultiView>>
    /\ LET f == selectedField
           newValue == EditValue(f)
           activeIndex == getActiveIndex
           cell == TargetCell(activeIndex)
           \* clearAllFieldHighlights
           cells0 == IF isMultiView THEN ClearAllCells(multi) ELSE multi
           export0 == IF isMultiView THEN [exportDoc EXCEPT !.hl = {}] ELSE exportDoc
           isSelectedIframe ==
               ~isMultiView
               \/ (selectedBannerIndex # NoBanner /\ activeIndex = selectedBannerIndex)
           p1 == IF isMultiView THEN previewDoc
                 ELSE updateFieldInDocument([previewDoc EXCEPT !.hl = {}], f, newValue,
                                            TRUE, TRUE)
           cells1 == IF cell # NoBanner
                     THEN [cells0 EXCEPT ![cell].doc =
                              updateFieldInDocument(@, f, newValue, TRUE, isSelectedIframe)]
                     ELSE cells0
           hasTarget == ~isMultiView \/ cell # NoBanner
           target == IF isMultiView /\ cell # NoBanner THEN cells1[cell].doc ELSE p1
       IN /\ previewDoc' = p1
          /\ exportDoc' = updateFieldInDocument(export0, f, newValue, FALSE, FALSE)
          /\ selectedFieldValue' = IF hasTarget /\ HasElement(target, f)
                                   THEN (IF IsPriceField(f)
                                         THEN (IF f = "sec_price_int" THEN ShownInt(target)
                                               ELSE ShownDec(target))
                                         ELSE ReadField(target, f))
                                   ELSE newValue
          /\ editedValues' = SetEdit(editedValues, activeIndex, f, newValue)
          /\ ArmTimer
          /\ ArmView(selectedBannerIndex, cells1)

\* ---------------------------------------------------------------- navigation
\* handlePrev / handleNext store the editor's value for the selected field
\* before they move the cursor
\* the step of the navigation and the last cursor position handleNext allows
NavStep == IF isMultiView THEN 4 ELSE 1
MaxIndex == IF isMultiView THEN Max2(0, Len(jsonData) - 4) ELSE Len(jsonData) - 1

SaveOnLeave ==
    IF selectedField # "" /\ selectedFieldValue # <<>>
    THEN editedValues' = SetEdit(editedValues, getActiveIndex, selectedField,
                                 selectedFieldValue)
    ELSE UNCHANGED editedValues

handlePrev ==
    /\ currentIndex > 0
    /\ nUser < MaxUser
    /\ nUser' = nUser + 1
    /\ SaveOnLeave
    /\ currentIndex' = IF currentIndex >= NavStep THEN currentIndex - NavStep ELSE 0
    /\ UNCHANGED <<htmlContent, templateAssets, jsonData, selectedField, isGenerating, error,
                   success, exportDoc, previewDoc, clock, pc, run, download, nRuns, htmlFile,
                   templateFields, zipFile, processed, isMultiView>>
    /\ ArmTimer
    /\ ArmView(IF isMultiView THEN currentIndex' ELSE selectedBannerIndex, multi)
    /\ SyncView

handleNext ==
    /\ currentIndex < MaxIndex
    /\ nUser < MaxUser
    /\ nUser' = nUser + 1
    /\ SaveOnLeave
    /\ currentIndex' = Min2(currentIndex + NavStep, MaxIndex)
    /\ UNCHANGED <<htmlContent, templateAssets, jsonData, selectedField, isGenerating, error,
                   success, exportDoc, previewDoc, clock, pc, run, download, nRuns, htmlFile,
                   templateFields, zipFile, processed, isMultiView>>
    /\ ArmTimer
    /\ ArmView(IF isMultiView THEN currentIndex' ELSE selectedBannerIndex, multi)
    /\ SyncView

\* a click on a cell of the grid that shows a record: handleSelectBanner
handleSelectBanner ==
    /\ isMultiView
    /\ nUser < MaxUser
    /\ nUser' = nUser + 1
    /\ UNCHANGED <<htmlContent, templateAssets, jsonData, currentIndex, editedValues,
                   selectedField, isGenerating, error, success, clock, pc, run, download, nRuns,
                   htmlFile, templateFields, zipFile, processed, isMultiView>>
    /\ \E idx \in Cells :
          /\ currentIndex + idx < Len(jsonData)
          /\ LET index == currentIndex + idx
                 h == Highlighted(selectedField, index)
             IN  IF selectedField # "" /\ htmlContent
                 THEN /\ previewDoc' = h.preview
                      /\ exportDoc' = h.export
                      /\ selectedFieldValue' = h.value
                      /\ ArmTimer
                      /\ ArmView(index, h.cells)
                 ELSE /\ UNCHANGED <<previewDoc, exportDoc, selectedFieldValue>>
                      /\ ArmTimer
                      /\ ArmView(index, multi)

\* the single-view button: the cursor goes to the selected banner, the
\* selection is dropped, the grid is replaced by the preview iframe
ViewSingle ==
    /\ isMultiView
    /\ nUser < MaxUser
    /\ nUser' = nUser + 1
    /\ isMultiView' = FALSE
    /\ currentIndex' = getActiveIndex
    /\ previewDoc' = DefaultDoc
    /\ UNCHANGED <<htmlContent, templateAssets, jsonData, editedValues, selectedField,
                   selectedFieldValue, isGenerating, error, success, exportDoc, clock, pc, run,
                   download, nRuns, htmlFile, templateFields, zipFile, processed>>
    /\ ArmTimer
    /\ ArmView(NoBanner, multi)

\* the multi-view button: the cursor is moved so that four records are shown
\* where there are that many, the top-left banner is selected, the preview
\* iframe is replaced by the grid
ViewMulti ==
    /\ ~isMultiView
    /\ nUser < MaxUser
    /\ nUser' = nUser + 1
    /\ isMultiView' = TRUE
    /\ currentIndex' = IF Len(jsonData) <= 4 THEN 0
                       ELSE Min2(currentIndex, Max2(0, Len(jsonData) - 4))
    /\ previewDoc' = DefaultDoc
    /\ UNCHANGED <<htmlContent, templateAssets, jsonData, editedValues, selectedField,
                   isGenerating, error, success, exportDoc, clock, pc, run, download, nRuns,
                   htmlFile, templateFields, zipFile, processed>>
    /\ ArmTimer
    /\ ArmView(currentIndex', multi)
    /\ SyncView

\* the multi-view effect's timer fires: every iframe of the grid is bound with
\* the record of its cell, with the overlay as it is now
MultiEffect ==
    /\ multiTimer
    /\ multiTimer' = FALSE
    /\ multi' = [idx \in Cells |->
                   IF multi[idx].mounted /\ currentIndex + idx < Len(jsonData)
                   THEN [mounted |-> TRUE, rec |-> currentIndex + idx,
                         doc |-> BindExport(htmlContent, multi[idx].doc,
                                            Rec(jsonData, currentIndex + idx),
                                            EditsOf(editedValues, currentIndex + idx))]
                   ELSE multi[idx]]
    /\ UNCHANGED <<htmlContent, templateAssets, jsonData, currentIndex, editedValues,
                   selectedField, selectedFieldValue, isGenerating, error, success, exportDoc,
                   previewDoc, previewTimer, clock, pc, run, download, nUser, nRuns, htmlFile,
                   templateFields, zipFile, processed, isMultiView, selectedBannerIndex,
                   highlightTimer>>

\* the re-highlight effect's timer fires: the selected field is highlighted
\* again and its value read again, for the active index
ReHighlight ==
    /\ highlightTimer
    /\ highlightTimer' = FALSE
    /\ LET h == Highlighted(selectedField, getActiveIndex)
       IN  /\ previewDoc' = h.preview
           /\ exportDoc' = h.export
           /\ multi' = h.cells
           /\ selectedFieldValue' = h.value
    /\ UNCHANGED <<htmlContent, templateAssets, jsonData, currentIndex, editedValues,
                   selectedField, isGenerating, error, success, previewTimer, clock, pc, run,
                   download, nUser, nRuns, htmlFile, templateFields, zipFile, processed,
                   isMultiView, selectedBannerIndex, multiTimer>>

\* the single-view effect's timer fires: the record under the cursor is bound
\* again, with the overlay as it is now, into the export and the preview iframe
PreviewEffect ==
    /\ previewTimer
    /\ previewTimer' = FALSE
    /\ LET data == Rec(jsonData, currentIndex)
           edits == EditsOf(editedValues, currentIndex)
           p1 == BindExport(htmlContent, previewDoc, data, edits)
       IN /\ exportDoc' = BindExport(htmlContent, exportDoc, data, edits)
          /\ previewDoc' = p1
          /\ selectedFieldValue' =
                IF selectedField = "" THEN selectedFieldValue
                ELSE IF Has(edits, selectedField) THEN edits[selectedField]
                ELSE IF ~IsPriceField(selectedField) /\ HasElement(p1, selectedField)
                     THEN ReadField(p1, selectedField)
                ELSE selectedFieldValue
    /\ UNCHANGED <<isMultiView, zipFile, processed, htmlFile, templateFields, htmlContent, templateAssets, jsonData, currentIndex, editedValues,
                   selectedField, isGenerating, error, success, clock, pc, run, download,
                   selectedBannerIndex, multi, multiTimer, highlightTimer,
                   nUser, nRuns>>

Tick ==
    /\ clock < MaxClock
    /\ clock' = clock + 1
    /\ UNCHANGED <<isMultiView, zipFile, processed, htmlFile, templateFields, htmlContent, templateAssets, jsonData, currentIndex, editedValues,
                   selectedField, selectedFieldValue, isGenerating, error, success,
                   exportDoc, previewDoc, previewTimer, selectedBannerIndex, multi, multiTimer, highlightTimer, pc, run, download,
                   nUser, nRuns>>

\* the "x" button of the template panel: the template is dropped, the export
\* and the preview iframe are unmounted; a loop that has fetched the export
\* document keeps the detached document
ClearTemplate ==
    /\ htmlContent
    /\ nUser < MaxUser
    /\ nUser' = nUser + 1
    /\ htmlContent' = FALSE /\ templateAssets' = FALSE
    /\ selectedField' = "" /\ selectedFieldValue' = <<>>
    /\ success' = "cleared"
    /\ exportDoc' = DefaultDoc /\ previewDoc' = DefaultDoc
    /\ run' = IF pc \in {"fonts", "capture"} /\ ~run.detached
              THEN [run EXCEPT !.detached = TRUE, !.heldDoc = exportDoc]
              ELSE run
    /\ templateFields' = <<>>
    /\ UNCHANGED <<isMultiView, zipFile, processed, htmlFile, jsonData, currentIndex, editedValues, isGenerating,
                   error, clock, pc,
                   download, nRuns>>
    /\ ArmTimer
    /\ ArmView(selectedBannerIndex, multi)

\* ---------------------------------------------------------------- batch run
Pad2(s) == IF Len(s) < 2 THEN <<"0">> \o s ELSE s
\* the timestamp of an instant (its minute, padded to two digits)
Stamp(now) == Pad2(NatToStr(now))

Truthy(val) ==
    IF val.t = "str" THEN val.v # <<>>
    ELSE IF val.t = "num" THEN val.v # 0
    ELSE TRUE

PngExt == <<".", "p", "n", "g">>
TemplatePrefix == <<"t", "e", "m", "p", "l", "a", "t", "e", "_">>
BannerPrefix == <<"b", "a", "n", "n", "e", "r", "_">>
ArchiveName(timestamp) ==
    <<"b", "a", "n", "n", "e", "r", "s", "_">> \o timestamp \o <<".", "z", "i", "p">>

NameWith(i, row, bannerIndex, stamp) ==
    IF i = 0 THEN TemplatePrefix \o stamp \o PngExt
    ELSE IF Has(row, "id") /\ Truthy(row.id) THEN ToStr(row.id) \o <<"_">> \o stamp \o PngExt
    ELSE BannerPrefix \o NatToStr(bannerIndex) \o <<"_">> \o stamp \o PngExt

\* variant: the stamp is taken anew for every record, as the page's earlier
\* revision did
fileNameNow(i, row, bannerIndex, timestamp) == NameWith(i, row, bannerIndex, Stamp(clock))

\* the name of record i's file
fileName(i, row, bannerIndex, timestamp) == NameWith(i, row, bannerIndex, timestamp)

\* zip.file(name, blob): an entry of that name is replaced
ZipFile(zip, name, blob) ==
    [n \in DOMAIN zip \cup {name} |-> IF n = name THEN blob ELSE zip[n]]

\* variant: the click starts the loop without setting the generating flag
GenStartNoFlag ==
    /\ ~isGenerating /\ Len(jsonData) > 0 /\ templateAssets /\ htmlContent
    /\ pc = "idle"
    /\ nRuns < MaxRuns
    /\ nRuns' = nRuns + 1
    /\ error' = "" /\ success' = ""
    /\ run' = [NoRun EXCEPT !.timestamp = Stamp(clock), !.data = jsonData,
                            !.edits = editedValues]
    /\ pc' = "loop"
    /\ UNCHANGED <<isMultiView, zipFile, processed, htmlFile, templateFields, htmlContent, templateAssets,
                   jsonData, currentIndex, editedValues, selectedField, selectedFieldValue,
                   isGenerating, exportDoc, previewDoc, previewTimer, selectedBannerIndex, multi, multiTimer, highlightTimer, clock, download, nUser>>

\* the click on the generate button, up to the loop
GenStart ==
    /\ ~isGenerating /\ Len(jsonData) > 0 /\ templateAssets /\ htmlContent
    /\ pc = "idle"
    /\ nRuns < MaxRuns
    /\ nRuns' = nRuns + 1
    /\ isGenerating' = TRUE /\ error' = "" /\ success' = ""
    /\ run' = [NoRun EXCEPT !.timestamp = Stamp(clock), !.data = jsonData,
                            !.edits = editedValues]
    /\ pc' = "loop"
    /\ UNCHANGED <<isMultiView, zipFile, processed, htmlFile, templateFields, htmlContent, templateAssets, jsonData, currentIndex, editedValues,
                   selectedField, selectedFieldValue, exportDoc, previewDoc, previewTimer, selectedBannerIndex, multi, multiTimer, highlightTimer,
                   clock, download, nUser>>

\* one turn of the loop up to the delay: bannerIndex++, setCurrentIndex(i),
\* applyJsonDataToIframe(jsonData[i], i)
GenBind ==
    /\ pc = "loop" /\ run.i < Len(run.data)
    /\ currentIndex' = run.i
    /\ exportDoc' = BindExport(htmlContent, exportDoc, Rec(run.data, run.i),
                               EditsOf(run.edits, run.i))
    /\ previewDoc' = IF isMultiView THEN previewDoc
                     ELSE BindExport(htmlContent, previewDoc, Rec(run.data, run.i),
                                     EditsOf(run.edits, run.i))
    /\ run' = [run EXCEPT !.bannerIndex = @ + 1, !.boundIdx = run.i,
                          !.delayElapsed = FALSE, !.fonts = "no",
                          !.detached = FALSE, !.heldDoc = DefaultDoc]
    /\ pc' = "delay"
    /\ UNCHANGED <<isMultiView, zipFile, processed, htmlFile, templateFields, htmlContent, templateAssets, jsonData, editedValues, selectedField,
                   isGenerating, error, success, clock, download,
                   nUser, nRuns>>
    /\ ArmTimer
    /\ ArmView(selectedBannerIndex, multi)
    /\ SyncView

\* variant: the loop goes from the delay straight to the capture, as the page's
\* earlier revision did
GenDelayNoFonts ==
    /\ pc = "delay"
    /\ IF htmlContent
       THEN /\ run' = [run EXCEPT !.delayElapsed = TRUE,
                                  !.fileName = fileName(run.i, Rec(run.data, run.i),
                                                        run.bannerIndex, run.timestamp)]
            /\ pc' = "capture"
       ELSE /\ run' = [run EXCEPT !.i = @ + 1, !.passed = @ \cup {run.i}]
            /\ pc' = "loop"
    /\ UNCHANGED <<isMultiView, zipFile, processed, htmlFile, templateFields, htmlContent, templateAssets, jsonData, currentIndex, editedValues,
                   selectedField, selectedFieldValue, isGenerating, error, success,
                   exportDoc, previewDoc, previewTimer, selectedBannerIndex, multi, multiTimer, highlightTimer, clock, download,
                   nUser, nRuns>>

\* the 300 ms have passed; without an export iframe the record is passed over
GenDelay ==
    /\ pc = "delay"
    /\ IF htmlContent
       THEN /\ run' = [run EXCEPT !.delayElapsed = TRUE]
            /\ pc' = "fonts"
       ELSE /\ run' = [run EXCEPT !.i = @ + 1, !.passed = @ \cup {run.i}]
            /\ pc' = "loop"
    /\ UNCHANGED <<isMultiView, zipFile, processed, htmlFile, templateFields, htmlContent, templateAssets, jsonData, currentIndex, editedValues,
                   selectedField, selectedFieldValue, isGenerating, error, success,
                   exportDoc, previewDoc, previewTimer, selectedBannerIndex, multi, multiTimer, highlightTimer, clock, download,
                   nUser, nRuns>>

\* variant: the capture is started and not awaited; the loop goes on at once
GenFontsNoAwait ==
    /\ pc = "fonts"
    /\ \E outcome \in {"ready", "failed", "fallback"} :
          run' = [run EXCEPT !.i = @ + 1]
    /\ exportDoc' = [exportDoc EXCEPT !.hl = {}]
    /\ pc' = "loop"
    /\ UNCHANGED <<isMultiView, zipFile, processed, htmlFile, templateFields, htmlContent, templateAssets, jsonData, currentIndex, editedValues,
                   selectedField, selectedFieldValue, isGenerating, error, success,
                   previewDoc, previewTimer, selectedBannerIndex, multi, multiTimer, highlightTimer, clock, download, nUser, nRuns>>

\* waitForIframeFonts has returned (fonts ready, fonts.ready rejected, or the
\* fallback wait); the highlights are cleared and the file name is made
GenFonts ==
    /\ pc = "fonts"
    /\ \E outcome \in {"ready", "failed", "fallback"} :
          run' = [run EXCEPT !.fonts = outcome,
                             !.fileName = fileName(run.i, Rec(run.data, run.i),
                                                   run.bannerIndex, run.timestamp)]
    /\ exportDoc' = [exportDoc EXCEPT !.hl = {}]
    /\ pc' = "capture"
    /\ UNCHANGED <<isMultiView, zipFile, processed, htmlFile, templateFields, htmlContent, templateAssets, jsonData, currentIndex, editedValues,
                   selectedField, selectedFieldValue, isGenerating, error, success,
                   previewDoc, previewTimer, selectedBannerIndex, multi, multiTimer, highlightTimer, clock, download, nUser, nRuns>>

\* exportNodeToPngDataUrl, fetch, blob and zip.file all went through
GenCapture ==
    /\ pc = "capture"
    /\ LET shot == IF run.detached THEN run.heldDoc ELSE exportDoc
       IN run' = [run EXCEPT !.zip = ZipFile(run.zip, run.fileName,
                                             [rec |-> run.i, shot |-> shot]),
                             !.successCount = @ + 1,
                             !.added = @ \cup {run.i},
                             !.i = @ + 1, !.fonts = "no", !.delayElapsed = FALSE,
                             !.detached = FALSE, !.heldDoc = DefaultDoc]
    /\ pc' = "loop"
    /\ UNCHANGED <<isMultiView, zipFile, processed, htmlFile, templateFields, htmlContent, templateAssets, jsonData, currentIndex, editedValues,
                   selectedField, selectedFieldValue, isGenerating, error, success,
                   exportDoc, previewDoc, previewTimer, selectedBannerIndex, multi, multiTimer, highlightTimer, clock, download,
                   nUser, nRuns>>

\* variant: no try/catch inside the loop; a throwing capture ends up in the
\* outer catch
GenCaptureThrowAbort ==
    /\ pc = "capture"
    /\ error' = "exception"
    /\ isGenerating' = FALSE
    /\ pc' = "idle"
    /\ UNCHANGED <<isMultiView, zipFile, processed, htmlFile, templateFields, htmlContent, templateAssets, jsonData, currentIndex, editedValues,
                   selectedField, selectedFieldValue, success, exportDoc, previewDoc,
                   previewTimer, selectedBannerIndex, multi, multiTimer, highlightTimer, clock, run, download, nUser, nRuns>>

\* one of them threw: the inner catch logs the record and the loop goes on
GenCaptureThrow ==
    /\ pc = "capture"
    /\ run' = [run EXCEPT !.failed = @ \cup {run.i}, !.i = @ + 1, !.fonts = "no",
                          !.delayElapsed = FALSE, !.detached = FALSE,
                          !.heldDoc = DefaultDoc]
    /\ pc' = "loop"
    /\ UNCHANGED <<isMultiView, zipFile, processed, htmlFile, templateFields, htmlContent, templateAssets, jsonData, currentIndex, editedValues,
                   selectedField, selectedFieldValue, isGenerating, error, success,
                   exportDoc, previewDoc, previewTimer, selectedBannerIndex, multi, multiTimer, highlightTimer, clock, download,
                   nUser, nRuns>>

\* after the loop, with successes: pack, download, report, reset the cursor
GenPack ==
    /\ pc = "loop" /\ run.i >= Len(run.data) /\ run.successCount > 0
    /\ download' = [made |-> TRUE, name |-> ArchiveName(run.timestamp),
                    entries |-> run.zip, reported |-> run.successCount]
    /\ success' = "generated"
    /\ currentIndex' = 0
    /\ isGenerating' = FALSE
    /\ pc' = "idle"
    /\ UNCHANGED <<isMultiView, zipFile, processed, htmlFile, templateFields, htmlContent, templateAssets, jsonData, editedValues, selectedField,
                   error, exportDoc, previewDoc, clock, run,
                   nUser, nRuns>>
    /\ ArmTimer
    /\ ArmView(selectedBannerIndex, multi)
    /\ SyncView

\* variant: the outer catch without the finally block; the flag stays set
GenPackThrowNoFinally ==
    /\ pc = "loop" /\ run.i >= Len(run.data) /\ run.successCount > 0
    /\ error' = "exception"
    /\ pc' = "idle"
    /\ UNCHANGED <<isMultiView, zipFile, processed, htmlFile, templateFields, htmlContent, templateAssets,
                   jsonData, currentIndex, editedValues, selectedField, selectedFieldValue,
                   isGenerating, success, exportDoc, previewDoc, previewTimer, selectedBannerIndex, multi, multiTimer, highlightTimer, clock, run,
                   download, nUser, nRuns>>

\* zip.generateAsync threw: the outer catch
GenPackThrow ==
    /\ pc = "loop" /\ run.i >= Len(run.data) /\ run.successCount > 0
    /\ error' = "exception"
    /\ isGenerating' = FALSE
    /\ pc' = "idle"
    /\ UNCHANGED <<isMultiView, zipFile, processed, htmlFile, templateFields, htmlContent, templateAssets, jsonData, currentIndex, editedValues,
                   selectedField, selectedFieldValue, success, exportDoc, previewDoc,
                   previewTimer, selectedBannerIndex, multi, multiTimer, highlightTimer, clock, run, download, nUser, nRuns>>

\* variant: the count of successes is not looked at; the archive is packed and
\* reported whatever it holds
GenNonePacks ==
    /\ pc = "loop" /\ run.i >= Len(run.data) /\ run.successCount = 0
    /\ download' = [made |-> TRUE, name |-> ArchiveName(run.timestamp),
                    entries |-> run.zip, reported |-> run.successCount]
    /\ success' = "generated"
    /\ isGenerating' = FALSE
    /\ pc' = "idle"
    /\ UNCHANGED <<isMultiView, zipFile, processed, htmlFile, templateFields, htmlContent, templateAssets, jsonData, currentIndex, editedValues,
                   selectedField, selectedFieldValue, error, exportDoc, previewDoc,
                   previewTimer, selectedBannerIndex, multi, multiTimer, highlightTimer, clock, run, nUser, nRuns>>

\* after the loop, without a success
GenNone ==
    /\ pc = "loop" /\ run.i >= Len(run.data) /\ run.successCount = 0
    /\ error' = "none"
    /\ isGenerating' = FALSE
    /\ pc' = "idle"
    /\ UNCHANGED <<isMultiView, zipFile, processed, htmlFile, templateFields, htmlContent, templateAssets, jsonData, currentIndex, editedValues,
                   selectedField, selectedFieldValue, success, exportDoc, previewDoc,
                   previewTimer, selectedBannerIndex, multi, multiTimer, highlightTimer, clock, run, download, nUser, nRuns>>

Next ==
    \/ HtmlUpload \/ ZipUpload \/ JsonUpload \/ JsonUploadFail \/ ClearTemplate
    \/ FieldClick \/ UpdateFieldValue \/ handlePrev \/ handleNext \/ PreviewEffect
    \/ Tick
    \/ GenStart \/ GenBind \/ GenDelay \/ GenFonts \/ GenCapture \/ GenCaptureThrow
    \/ GenPack \/ GenPackThrow \/ GenNone

Spec == Init /\ [][Next]_vars

\* ------------------------------------- the page with a template and a batch
\* The page after a ZIP upload and a click on a field of the panel: the batch of
\* the ZIP is loaded, the field is selected and highlighted in the preview, its
\* value is shown in the editor, and the single-view effect's timer is pending.
InitLoaded ==
    /\ htmlContent = TRUE /\ templateAssets = TRUE
    /\ \E recs \in ZipRecords : jsonData = <<EmptyRecord>> \o recs
    /\ currentIndex = 0
    /\ editedValues = <<>>
    /\ \E f \in EditFields :
          /\ selectedField = f
          /\ selectedFieldValue = ReadField(DefaultDoc, f)
          /\ previewDoc = [DefaultDoc EXCEPT !.hl = {SlotOf(f)}]
    /\ isGenerating = FALSE /\ error = "" /\ success = "loaded"
    /\ exportDoc = DefaultDoc
    /\ previewTimer = TRUE
    /\ clock = 0
    /\ pc = "idle" /\ run = NoRun /\ download = NoDownload
    /\ nUser = 0 /\ nRuns = 0
    /\ htmlFile = DefaultMarkers /\ templateFields = discoverFields(DefaultMarkers)
    /\ zipFile \in DefaultZips /\ processed = NoProcessed
    /\ isMultiView = FALSE /\ selectedBannerIndex = NoBanner
    /\ multi = NoCells /\ multiTimer = FALSE
    /\ highlightTimer = (selectedField # "" /\ htmlContent)

\* the gestures and the timer of the page, no batch run being started
NextLoaded ==
    \/ HtmlUpload \/ ZipUpload \/ JsonUpload \/ JsonUploadFail \/ ClearTemplate
    \/ FieldClick \/ UpdateFieldValue \/ handlePrev \/ handleNext \/ PreviewEffect

SpecLoaded == InitLoaded /\ [][NextLoaded]_vars

\* --------------------------------------------- field discovery on its own
\* The page before any upload, with one of the template files at hand; the
\* HTML upload and the ZIP upload discover its fields.
InitFields ==
    /\ htmlContent = FALSE /\ templateAssets = FALSE
    /\ jsonData = <<>> /\ currentIndex = 0
    /\ editedValues = <<>>
    /\ selectedField = "" /\ selectedFieldValue = <<>>
    /\ isGenerating = FALSE /\ error = "" /\ success = ""
    /\ exportDoc = DefaultDoc /\ previewDoc = DefaultDoc
    /\ previewTimer = FALSE
    /\ clock = 0
    /\ pc = "idle" /\ run = NoRun /\ download = NoDownload
    /\ nUser = 0 /\ nRuns = 0
    /\ htmlFile \in MarkerDocs /\ templateFields = <<>>
    /\ zipFile \in DefaultZips /\ processed = NoProcessed
    /\ isMultiView = FALSE /\ selectedBannerIndex = NoBanner
    /\ multi = NoCells /\ multiTimer = FALSE
    /\ highlightTimer = (selectedField # "" /\ htmlContent)

NextFields == HtmlUpload \/ ZipUpload

SpecFields == InitFields /\ [][NextFields]_vars

\* ------------------------------------------------ a batch run, taken on its own
\* A template and a JSON file are loaded; the user starts the run and lets it
\* go through. Some of the records make the binding throw: Array(qty) with a
\* negative quantity, or with one that is not a number.
RecT == [id |-> S(<<"t">>), product_main_src |-> S(<<"q">>), product_main_qty |-> N(0 - 1)]
RecU == [title |-> S(<<"U">>), gift_products_src |-> S(<<"g">>),
         gift_products_qty |-> S(<<"x">>)]
RunRecords == {RecB, RecC, RecT, RecU}
MaxBatch == 2
RunBatches == UNION {[1..n -> RunRecords] : n \in 1..MaxBatch}

InitRun ==
    /\ htmlContent = TRUE /\ templateAssets = TRUE
    /\ jsonData \in RunBatches
    /\ currentIndex = 0
    /\ editedValues = <<>>
    /\ selectedField = "" /\ selectedFieldValue = <<>>
    /\ isGenerating = FALSE /\ error = "" /\ success = "loaded"
    /\ exportDoc = BindExport(TRUE, DefaultDoc, jsonData[1], <<>>)
    /\ previewDoc = BindExport(TRUE, DefaultDoc, jsonData[1], <<>>)
    /\ previewTimer = TRUE
    /\ clock = 0
    /\ pc = "idle" /\ run = NoRun /\ download = NoDownload
    /\ nUser = 0 /\ nRuns = 0
    /\ htmlFile = DefaultMarkers /\ templateFields = discoverFields(DefaultMarkers)
    /\ zipFile \in DefaultZips /\ processed = NoProcessed
    /\ isMultiView = FALSE /\ selectedBannerIndex = NoBanner
    /\ multi = NoCells /\ multiTimer = FALSE
    /\ highlightTimer = (selectedField # "" /\ htmlContent)

NextRun ==
    \/ PreviewEffect \/ ClearTemplate
    \/ GenStart \/ GenBind \/ GenDelay \/ GenFonts \/ GenCapture \/ GenCaptureThrow
    \/ GenPack \/ GenPackThrow \/ GenNone

SpecRun == InitRun /\ [][NextRun]_vars

\* every await of the loop is settled in the end: the 300 ms wait, the wait
\* for the fonts, the capture, the packing of the archive
RunStep ==
    \/ GenBind \/ GenDelay \/ GenFonts \/ GenCapture \/ GenCaptureThrow
    \/ GenPack \/ GenPackThrow \/ GenNone

SpecRunLive == SpecRun /\ WF_vars(RunStep)

\* -------------------------------------------- the page with its two views
\* The page with a template and a batch of two records, in single view; the
\* user switches between the views, selects banners and fields, edits, moves
\* through the batch, loads other batches and runs the batch loop.  A capture
\* that throws is left to SpecRun.
ViewBatches == {<<RecB, RecC>>}

InitView ==
    /\ htmlContent = TRUE /\ templateAssets = TRUE
    /\ jsonData \in ViewBatches
    /\ currentIndex = 0
    /\ editedValues = <<>>
    /\ selectedField = "" /\ selectedFieldValue = <<>>
    /\ isGenerating = FALSE /\ error = "" /\ success = "loaded"
    /\ exportDoc = BindExport(TRUE, DefaultDoc, jsonData[1], <<>>)
    /\ previewDoc = BindExport(TRUE, DefaultDoc, jsonData[1], <<>>)
    /\ previewTimer = TRUE
    /\ clock = 0
    /\ pc = "idle" /\ run = NoRun /\ download = NoDownload
    /\ nUser = 0 /\ nRuns = 0
    /\ htmlFile = DefaultMarkers /\ templateFields = discoverFields(DefaultMarkers)
    /\ zipFile \in DefaultZips /\ processed = NoProcessed
    /\ isMultiView = FALSE /\ selectedBannerIndex = NoBanner
    /\ multi = NoCells /\ multiTimer = FALSE
    /\ highlightTimer = FALSE

NextView ==
    \/ JsonUpload \/ JsonUploadFail
    \/ FieldClick \/ UpdateFieldValue \/ handlePrev \/ handleNext
    \/ handleSelectBanner \/ ViewSingle \/ ViewMulti
    \/ PreviewEffect \/ MultiEffect \/ ReHighlight
    \/ GenStart \/ GenBind \/ GenDelay \/ GenFonts \/ GenCapture
    \/ GenPack \/ GenPackThrow

SpecView == InitView /\ [][NextView]_vars

\* The two views with batches that fill more than one window of the grid, and
\* no batch run: gestures and effects only.
NavBatches == {<<RecB, RecC, RecB, RecC, RecB>>,
               <<RecB, RecC, RecB, RecC, RecB, RecC, RecB, RecC>>}

InitNav ==
    /\ htmlContent = TRUE /\ templateAssets = TRUE
    /\ jsonData \in NavBatches
    /\ currentIndex = 0
    /\ editedValues = <<>>
    /\ selectedField = "" /\ selectedFieldValue = <<>>
    /\ isGenerating = FALSE /\ error = "" /\ success = "loaded"
    /\ exportDoc = BindExport(TRUE, DefaultDoc, jsonData[1], <<>>)
    /\ previewDoc = BindExport(TRUE, DefaultDoc, jsonData[1], <<>>)
    /\ previewTimer = TRUE
    /\ clock = 0
    /\ pc = "idle" /\ run = NoRun /\ download = NoDownload
    /\ nUser = 0 /\ nRuns = 0
    /\ htmlFile = DefaultMarkers /\ templateFields = discoverFields(DefaultMarkers)
    /\ zipFile \in DefaultZips /\ processed = NoProcessed
    /\ isMultiView = FALSE /\ selectedBannerIndex = NoBanner
    /\ multi = NoCells /\ multiTimer = FALSE
    /\ highlightTimer = FALSE

NextNav ==
    \/ JsonUpload \/ JsonUploadFail
    \/ FieldClick \/ UpdateFieldValue \/ handlePrev \/ handleNext
    \/ handleSelectBanner \/ ViewSingle \/ ViewMulti
    \/ PreviewEffect \/ MultiEffect \/ ReHighlight

SpecNav == InitNav /\ [][NextNav]_vars

\* ---------------------------------------- asset resolution, taken on its own
\* The user picks one of the archives and uploads it.
InitResolve ==
    /\ htmlContent = FALSE /\ templateAssets = FALSE
    /\ jsonData = <<>> /\ currentIndex = 0
    /\ editedValues = <<>>
    /\ selectedField = "" /\ selectedFieldValue = <<>>
    /\ isGenerating = FALSE /\ error = "" /\ success = ""
    /\ exportDoc = DefaultDoc /\ previewDoc = DefaultDoc
    /\ previewTimer = FALSE
    /\ clock = 0
    /\ pc = "idle" /\ run = NoRun /\ download = NoDownload
    /\ nUser = 0 /\ nRuns = 0
    /\ htmlFile = DefaultMarkers /\ templateFields = <<>>
    /\ zipFile \in ZipArchives /\ processed = NoProcessed
    /\ isMultiView = FALSE /\ selectedBannerIndex = NoBanner
    /\ multi = NoCells /\ multiTimer = FALSE
    /\ highlightTimer = (selectedField # "" /\ htmlContent)

NextResolve == ZipUpload

SpecResolve == InitResolve /\ [][NextResolve]_vars

\* ------------------------------------------------ binding, taken on its own
\* The records and overlays the binding is applied to, one after the other,
\* on one document that is never reset in between.
RecP == [product_main_src |-> S(<<"r">>), product_main_qty |-> N(2)]
BindRecords == {EmptyRecord, RecA, RecC, RecD, RecP}
BindEdits == {<<>>,
              [title |-> <<"E">>],
              [logo_src |-> <<"k">>],
              [sec_price_int |-> <<"7", "7", "7">>],
              [sec_price_decimal |-> <<"4">>],
              [product_main_src |-> <<"s">>],
              [product_main_qty |-> <<"2">>]}

InitBind ==
    /\ htmlContent = TRUE /\ templateAssets = TRUE
    /\ jsonData \in {<<d>> : d \in BindRecords}
    /\ editedValues \in {[i \in {0} |-> e] : e \in BindEdits}
    /\ currentIndex = 0
    /\ selectedField = "" /\ selectedFieldValue = <<>>
    /\ isGenerating = FALSE /\ error = "" /\ success = ""
    /\ exportDoc = DefaultDoc /\ previewDoc = DefaultDoc
    /\ previewTimer = FALSE
    /\ clock = 0
    /\ pc = "idle" /\ run = NoRun /\ download = NoDownload
    /\ nUser = 0 /\ nRuns = 0
    /\ htmlFile = DefaultMarkers /\ templateFields = discoverFields(DefaultMarkers)
    /\ zipFile \in DefaultZips /\ processed = NoProcessed
    /\ isMultiView = FALSE /\ selectedBannerIndex = NoBanner
    /\ multi = NoCells /\ multiTimer = FALSE
    /\ highlightTimer = (selectedField # "" /\ htmlContent)

\* applyJsonDataToIframe(jsonData[0], 0) on the export iframe
Bind ==
    /\ pc = "idle"
    /\ exportDoc' = BindExport(htmlContent, exportDoc, Rec(jsonData, 0),
                               EditsOf(editedValues, 0))
    /\ pc' = "bound"
    /\ UNCHANGED <<isMultiView, zipFile, processed, htmlFile, templateFields, htmlContent, templateAssets, jsonData, currentIndex, editedValues,
                   selectedField, selectedFieldValue, isGenerating, error, success,
                   previewDoc, previewTimer, selectedBannerIndex, multi, multiTimer, highlightTimer, clock, run, download, nUser, nRuns>>

\* another record, with its overlay, comes up for binding
NextRecord ==
    /\ pc = "bound"
    /\ nUser < MaxUser
    /\ nUser' = nUser + 1
    /\ jsonData' \in {<<d>> : d \in BindRecords}
    /\ editedValues' \in {[i \in {0} |-> e] : e \in BindEdits}
    /\ pc' = "idle"
    /\ UNCHANGED <<isMultiView, zipFile, processed, htmlFile, templateFields, htmlContent, templateAssets, currentIndex, selectedField,
                   selectedFieldValue, isGenerating, error, success, exportDoc,
                   previewDoc, previewTimer, selectedBannerIndex, multi, multiTimer, highlightTimer, clock, run, download, nRuns>>

NextBind == Bind \/ NextRecord

SpecBind == InitBind /\ [][NextBind]_vars

\* ------------------------------------------- the price slot, taken on its own
\* What the price slot of a template may hold before a binding: the 2-digit
\* structure, the 3-digit structure, the legacy structure (text node after the
\* sign, .decimal span), nothing but the sign, nothing at all, and the
\* sub-elements of both styles side by side, in either order.
Slot(cls, kids) == [present |-> TRUE, cls |-> cls, kids |-> kids]
Int2Span == Span({"price-int-2"}, <<"9">>)
Dec2Span == Span({"price-decimal-2"}, <<".", "9">>)
Int3Span == Span({"price-int-3"}, <<"1", "2", "3">>)
Dec3Span == Span({"price-decimal-3"}, <<".", "0">>)
PriceSlots ==
    {Slot({"price--2digits"}, <<SignNode, Int2Span, Dec2Span>>),
     Slot({"price--3digits"}, <<SignNode, Int3Span, Dec3Span>>),
     Slot({}, <<SignNode, TextNode(<<"9">>), Span({"decimal"}, <<".", "9">>)>>),
     Slot({}, <<SignNode>>),
     Slot({}, <<>>),
     Slot({"price--2digits"}, <<SignNode, Int2Span, Dec2Span, Int3Span, Dec3Span>>),
     Slot({"price--3digits"}, <<SignNode, Int3Span, Dec3Span, Int2Span, Dec2Span>>)}

\* the records and overrides that carry a price
PriceInts == {S(<<>>), S(<<"5">>), N(42), N(100)}
PriceDecs == {S(<<"5">>), S(<<".", "5">>), S(<<".", ".", "5">>), N(0)}
PriceRecords ==
    {[sec_price_int |-> i, sec_price_decimal |-> d] : i \in PriceInts, d \in PriceDecs}
        \cup {[sec_price_int |-> N(100)]}
PriceEdits == {<<>>, [sec_price_int |-> <<"7", "7", "7">>], [sec_price_int |-> <<"8">>],
               [sec_price_decimal |-> <<"4">>]}

InitPrice ==
    /\ htmlContent = TRUE /\ templateAssets = TRUE
    /\ jsonData \in {<<d>> : d \in PriceRecords}
    /\ editedValues \in {[i \in {0} |-> e] : e \in PriceEdits}
    /\ currentIndex = 0
    /\ selectedField = "" /\ selectedFieldValue = <<>>
    /\ isGenerating = FALSE /\ error = "" /\ success = ""
    /\ exportDoc \in {[DefaultDoc EXCEPT !.price = p] : p \in PriceSlots}
    /\ previewDoc = DefaultDoc
    /\ previewTimer = FALSE
    /\ clock = 0
    /\ pc = "idle" /\ run = NoRun /\ download = NoDownload
    /\ nUser = 0 /\ nRuns = 0
    /\ htmlFile = DefaultMarkers /\ templateFields = discoverFields(DefaultMarkers)
    /\ zipFile \in DefaultZips /\ processed = NoProcessed
    /\ isMultiView = FALSE /\ selectedBannerIndex = NoBanner
    /\ multi = NoCells /\ multiTimer = FALSE
    /\ highlightTimer = (selectedField # "" /\ htmlContent)

\* another price record, with its overlay, comes up for binding
NextPriceRecord ==
    /\ pc = "bound"
    /\ nUser < MaxUser
    /\ nUser' = nUser + 1
    /\ jsonData' \in {<<d>> : d \in PriceRecords}
    /\ editedValues' \in {[i \in {0} |-> e] : e \in PriceEdits}
    /\ pc' = "idle"
    /\ UNCHANGED <<isMultiView, zipFile, processed, htmlFile, templateFields, htmlContent, templateAssets, currentIndex,
                   selectedField, selectedFieldValue, isGenerating, error, success,
                   exportDoc, previewDoc, previewTimer, selectedBannerIndex, multi, multiTimer, highlightTimer, clock, run, download, nRuns>>

NextPrice == Bind \/ NextPriceRecord

SpecPrice == InitPrice /\ [][NextPrice]_vars

\* ------------------------------------ the image groups, taken on their own
\* The records that carry a repeated-image group: the sources as one string or
\* as an array of none, two or three, the quantity absent, a number or a
\* numeral; the main-product group, the gift group, and the gift group given
\* by gift_products_src_1.
MaxQty == 3
GroupSrcs ==
    {S(<<"a">>), A(<<>>), A(<<<<"a">>, <<"b">>>>), A(<<<<"a">>, <<"b">>, <<"c">>>>)}
GroupQtys == {N(q) : q \in 0..MaxQty} \cup {S(<<"2">>)}
ProductRecords ==
    {[product_main_src |-> s] : s \in GroupSrcs}
        \cup {[product_main_src |-> s, product_main_qty |-> q] : s \in GroupSrcs, q \in GroupQtys}
GiftRecords ==
    {[gift_products_src |-> s] : s \in GroupSrcs}
        \cup {[gift_products_src |-> s, gift_products_qty |-> q] : s \in GroupSrcs, q \in GroupQtys}
Gift1Records ==
    {[gift_products_src_1 |-> S(<<"a">>)],
     [gift_products_src_1 |-> S(<<"a">>), gift_products_qty_1 |-> N(2)]}
GroupRecords == ProductRecords \cup GiftRecords \cup Gift1Records
GroupEdits == {<<>>, [product_main_qty |-> <<"2">>], [gift_products_qty |-> <<"3">>]}

\* the templates: the .product container with no, one or two <img>
GroupDocs ==
    {[DefaultDoc EXCEPT !.product.imgs = imgs] :
        imgs \in {<<>>, <<Img(<<"p">>, FALSE, "tpl")>>,
                  <<Img(<<"p">>, FALSE, "tpl"), Img(<<"o">>, FALSE, "tpl")>>}}

InitGroup ==
    /\ htmlContent = TRUE /\ templateAssets = TRUE
    /\ jsonData \in {<<d>> : d \in GroupRecords}
    /\ editedValues \in {[i \in {0} |-> e] : e \in GroupEdits}
    /\ currentIndex = 0
    /\ selectedField = "" /\ selectedFieldValue = <<>>
    /\ isGenerating = FALSE /\ error = "" /\ success = ""
    /\ exportDoc \in GroupDocs
    /\ previewDoc = DefaultDoc
    /\ previewTimer = FALSE
    /\ clock = 0
    /\ pc = "idle" /\ run = NoRun /\ download = NoDownload
    /\ nUser = 0 /\ nRuns = 0
    /\ htmlFile = DefaultMarkers /\ templateFields = discoverFields(DefaultMarkers)
    /\ zipFile \in DefaultZips /\ processed = NoProcessed
    /\ isMultiView = FALSE /\ selectedBannerIndex = NoBanner
    /\ multi = NoCells /\ multiTimer = FALSE
    /\ highlightTimer = (selectedField # "" /\ htmlContent)

\* another group record, with its overlay, comes up for binding
NextGroupRecord ==
    /\ pc = "bound"
    /\ nUser < MaxUser
    /\ nUser' = nUser + 1
    /\ jsonData' \in {<<d>> : d \in GroupRecords}
    /\ editedValues' \in {[i \in {0} |-> e] : e \in GroupEdits}
    /\ pc' = "idle"
    /\ UNCHANGED <<isMultiView, zipFile, processed, htmlFile, templateFields, htmlContent, templateAssets, currentIndex,
                   selectedField, selectedFieldValue, isGenerating, error, success,
                   exportDoc, previewDoc, previewTimer, selectedBannerIndex, multi, multiTimer, highlightTimer, clock, run, download, nRuns>>

NextGroup == Bind \/ NextGroupRecord

SpecGroup == InitGroup /\ [][NextGroup]_vars

\* ================================================================== claims
\* what the slot of field f shows, compared with an overlay value v
VisibleCount(imgs) == Len(VisibleSrcs(imgs))
SlotShows(doc, f, v) ==
    IF f = "title" THEN doc.title = v
    ELSE IF f = "logo_src" THEN doc.logo = v
    ELSE IF f = "sec_price_int" THEN ShownInt(doc) = v
    ELSE IF f = "sec_price_decimal" THEN StripDot(ShownDec(doc)) = StripDot(v)
    ELSE IF f = "product_main_src"
         THEN /\ VisibleCount(doc.product.imgs) > 0
              /\ \A k \in 1..VisibleCount(doc.product.imgs) :
                    VisibleSrcs(doc.product.imgs)[k] = v
    ELSE IF f = "product_main_qty"
         THEN Num(VisibleCount(doc.product.imgs)) = ToNumber(S(v))
    ELSE TRUE

\* C1: overlay precedence. After record i has been bound, the slot of every
\* field for which the overlay holds an entry (i, f) shows the overlay value,
\* whether or not the record holds a value for f.
C1_OverlayPrecedence ==
    pc = "bound" =>
        \A f \in DOMAIN EditsOf(editedValues, 0) :
            SlotShows(exportDoc, f, EditsOf(editedValues, 0)[f])

\* the fields that fill a slot of the document
SlotFields ==
    [title |-> {"title"},
     logo |-> {"logo_src"},
     price |-> {"sec_price_int", "sec_price_decimal"},
     product |-> {"product_main_src", "product_main_qty"},
     gift |-> {"gift_products_src", "gift_products_qty", "gift_products_src_1",
               "gift_products_qty_1"}]
Supplies(r, sl) == DOMAIN r \cap SlotFields[sl] # {}

\* C2: in a batch run, a record that supplies no value and has no override
\* for a slot is captured with that slot at the template's default, whatever
\* earlier records bound into it.
C2_DefaultWhenUnsupplied ==
    \A n \in DOMAIN run.zip :
        \A sl \in DOMAIN SlotFields :
            (/\ ~Supplies(Rec(run.data, run.zip[n].rec), sl)
             /\ ~Supplies(EditsOf(run.edits, run.zip[n].rec), sl)
             /\ ~Supplies(EditsOf(editedValues, run.zip[n].rec), sl))
            => run.zip[n].shot[sl] = DefaultDoc[sl]

C3_Step ==
    /\ (pc = "capture" /\ pc' # "capture") =>
          /\ pc' = "loop" /\ run'.i = run.i + 1
          /\ \A n \in DOMAIN run.zip : n \in DOMAIN run'.zip
          /\ \/ run.i \in run'.failed /\ run'.successCount = run.successCount
             \/ /\ run.fileName \in DOMAIN run'.zip
                /\ run'.zip[run.fileName].rec = run.i
                /\ run'.successCount = run.successCount + 1
    /\ (pc # "idle" /\ pc' # "idle") => run'.i \in {run.i, run.i + 1}
    /\ (pc # "idle" /\ pc' = "idle") => run.i = Len(run.data)

\* C3: error isolation. Whatever records' captures throw, a capture that ends
\* moves the loop on to the next index; unless it threw (and was logged) its
\* record is in the archive and counted; the loop leaves only after the last
\* index.
C3_ErrorIsolation == [][C3_Step]_vars

\* a run at its end in which record 0 failed and both later records were added
C3_Witness ==
    /\ pc = "loop" /\ run.i = Len(run.data) /\ Len(run.data) = 3
    /\ run.failed = {0} /\ run.added = {1, 2} /\ run.successCount = 2

InCycle == pc \in {"delay", "fonts", "capture"}
C4_Step ==
    /\ (pc' = "delay" /\ pc # "delay") =>
          /\ pc = "loop"
          /\ run'.boundIdx = run.i /\ run.i = run.boundIdx + 1
          /\ \A k \in 0..(run.i - 1) : k \in run.failed \cup run.added \cup run.passed
    /\ InCycle' => run'.boundIdx = run'.i

\* C4: records are bound in increasing index order, one at a time: a record is
\* bound only between cycles, it is the successor of the record bound before,
\* and every earlier record's capture has ended (added or failed) or the
\* record was passed over.
C4_Sequential == [][C4_Step]_vars

\* record 2 has just been bound after the capture of record 1 failed
C4_Witness ==
    pc = "delay" /\ run.boundIdx = 2 /\ 1 \in run.failed /\ 0 \in run.added

\* C5: while a record is between its bind and the end of its capture, nothing
\* but the loop (which clears the highlights before the capture) writes into
\* the export iframe's document.
C5_ExclusiveTarget ==
    [][(InCycle /\ exportDoc' # exportDoc) => (pc = "fonts" /\ pc' = "capture")]_vars

\* C6: a capture is under way only for the record that was bound last, after
\* the delay has elapsed and the font wait has returned (fonts ready, failed,
\* or the fallback wait).
C6_SettleBeforeCapture ==
    pc = "capture" =>
        /\ run.boundIdx = run.i
        /\ run.delayElapsed
        /\ run.fonts \in {"ready", "failed", "fallback"}

\* the capture of record 1 is under way after fonts.ready was rejected
C6_Witness == pc = "capture" /\ run.i = 1 /\ run.fonts = "failed"

HasId(row) == Has(row, "id") /\ Truthy(row.id)

\* C7: every archived record with a non-empty id is named {id}_{timestamp},
\* at every index, index 0 included.
C7_IdNames ==
    \A n \in DOMAIN run.zip :
        HasId(Rec(run.data, run.zip[n].rec)) =>
            n = ToStr(Rec(run.data, run.zip[n].rec).id) \o <<"_">> \o run.timestamp \o PngExt

\* the record at index 0 that stands for the template itself
IsPlaceholder(data, k) ==
    k = 0 /\ Rec(data, 0) \in {EmptyRecord, extractTemplateDataFromHtml(DefaultDoc)}
\* the 1-based rank of record i among the real records
Rank(data, i) == Cardinality({k \in 0..i : ~IsPlaceholder(data, k)})

\* C8: the fallback name of a real record without id carries the record's
\* 1-based rank among the real records (so a placeholder at index 0 does not
\* shift it).
C8_FallbackRank ==
    \A n \in DOMAIN run.zip :
        LET i == run.zip[n].rec IN
        (~IsPlaceholder(run.data, i) /\ ~HasId(Rec(run.data, i))) =>
            n \in {pre \o NatToStr(Rank(run.data, i)) \o <<"_">> \o run.timestamp \o PngExt :
                      pre \in {<<>>, BannerPrefix}}

\* the stamp a file or archive name carries
StampOf(name) == SubSeq(name, Len(name) - 5, Len(name) - 4)

\* C9: all file names of a run carry one stamp, and the archive name carries
\* the same, also when the clock advances during the run.
C9_OneTimestamp ==
    /\ \A n \in DOMAIN run.zip : \A m \in DOMAIN run.zip : StampOf(n) = StampOf(m)
    /\ download.made =>
          \A n \in DOMAIN download.entries : StampOf(n) = StampOf(download.name)

\* a run at the end of its loop, two records captured, the archive not yet
\* named, and the clock past the minute in which the run began
C9_Witness ==
    /\ pc = "loop" /\ run.i = Len(run.data) /\ run.successCount >= 2
    /\ Cardinality(DOMAIN run.zip) >= 2
    /\ Stamp(clock) # run.timestamp

\* C10: the archive handed over holds as many entries as successes were
\* reported.
C10_EntriesEqualSuccesses ==
    download.made => Cardinality(DOMAIN download.entries) = download.reported

\* the empty record with a price override, bound onto the template's price
C1_Witness ==
    /\ pc = "bound" /\ jsonData = <<EmptyRecord>>
    /\ EditsOf(editedValues, 0) = [sec_price_int |-> <<"7", "7", "7">>]
    /\ ShownInt(exportDoc) = <<"9">>

\* the batch RecA, RecB after nothing but the two uploads: RecB, which names
\* no product image, is archived showing RecA's
C2_Witness ==
    /\ nUser = 2 /\ run.data = <<RecA, RecB>> /\ run.edits = <<>> /\ editedValues = <<>>
    /\ \E n \in DOMAIN run.zip :
          /\ run.zip[n].rec = 1
          /\ run.zip[n].shot.product.imgs[1].src = <<"q">>

\* a record about to be captured while the export document shows a title
\* typed during its cycle, which the run's binding did not produce
C5_Witness ==
    /\ pc = "capture"
    /\ exportDoc.title = <<"E">>
    /\ ~Has(EditsOf(run.edits, run.i), "title")
    /\ Has(EditsOf(editedValues, run.i), "title")

\* RecA, whose id is "a", archived from index 0 under the template's name
C7_Witness ==
    /\ Len(run.data) > 0 /\ Rec(run.data, 0) = RecA
    /\ (TemplatePrefix \o run.timestamp \o PngExt) \in DOMAIN run.zip
    /\ run.zip[TemplatePrefix \o run.timestamp \o PngExt].rec = 0

\* RecC, the first real record behind the placeholder, archived as banner_2
C8_Witness ==
    /\ Len(run.data) = 3 /\ Rec(run.data, 0) = EmptyRecord /\ Rec(run.data, 1) = RecC
    /\ (BannerPrefix \o <<"2">> \o <<"_">> \o run.timestamp \o PngExt) \in DOMAIN run.zip
    /\ run.zip[BannerPrefix \o <<"2">> \o <<"_">> \o run.timestamp \o PngExt].rec = 1

\* three successes reported for an archive of two entries
C10_Witness ==
    /\ download.made /\ download.reported = 3
    /\ Cardinality(DOMAIN download.entries) = 2


\* C11: when the loop of a batch run is over and no record has given a raster,
\* the run ends with the error "no banner was generated": the download is not
\* touched (no archive is made or handed to the browser) and the success
\* summary of a run is not shown.
C11_Step ==
    (pc = "loop" /\ pc' = "idle" /\ run.successCount = 0)
        => /\ error' = "none"
           /\ download' = download
           /\ success' # "generated"
           /\ ~isGenerating'
C11_TotalFailure == [][C11_Step]_vars
\* a run over three records has ended without a raster: one capture threw,
\* the loop is over, the error is shown
C11_Witness ==
    /\ pc = "idle" /\ nRuns = 1 /\ ~isGenerating
    /\ run.i = Len(run.data) /\ Len(run.data) >= 2
    /\ run.successCount = 0 /\ run.failed # {}
    /\ error = "none" /\ ~download.made


\* C12: a load (an HTML upload, a ZIP upload, a JSON upload that parsed) leaves
\* the edit overlay empty: no override entered before the load is applied to a
\* record of the new batch.
IsLoad == nUser' = nUser + 1 /\ success' = "loaded"
C12_Step == IsLoad => editedValues' = <<>>
IsNav == nUser' = nUser + 1 /\ currentIndex' # currentIndex /\ jsonData' = jsonData
C13_Step == IsNav => editedValues' = editedValues
C13_NavKeepsOverlay == [][C13_Step]_vars
\* the title field was selected on record 0 (the editor shows the template's
\* "T"), "next" was pressed twice before the effect's timer fired: the overlay
\* holds (1, title) = "T" for record 1, whose title is "Z" and which the user
\* never edited
C13_Witness ==
    /\ currentIndex = 2 /\ Len(jsonData) = 3
    /\ Has(Rec(jsonData, 1), "title") /\ Rec(jsonData, 1).title = S(<<"Z">>)
    /\ 1 \in DOMAIN editedValues /\ Has(editedValues[1], "title")
    /\ editedValues[1].title = <<"T">>
    /\ selectedField = "title"


\* C14: the edit overlay changes only by a user's edit made while no batch run
\* is in flight (a gesture that leaves the cursor where it is), never by a step
\* of the batch loop, and when a run ends the overlay is the one the run
\* started with.
IsIdleEdit == ~isGenerating /\ nUser' = nUser + 1 /\ currentIndex' = currentIndex
C14_Step ==
    /\ editedValues' # editedValues => IsIdleEdit
    /\ (isGenerating /\ ~isGenerating') => editedValues' = run.edits
C14_OverlayOnlyByIdleEdits == [][C14_Step]_vars
\* a run has ended with its archive downloaded, and the overlay is not the one
\* the run started with: the title was typed while the loop was waiting
C14_Witness ==
    /\ pc = "idle" /\ nRuns = 1 /\ ~isGenerating /\ download.made
    /\ run.edits = <<>>
    /\ 0 \in DOMAIN editedValues /\ Has(editedValues[0], "title")
    /\ editedValues[0].title = <<"E">>


\* C15 (as stated): field discovery lists the fields with unique names in the
\* order in which their names first occur in the document, plain markers and
\* composite-price markers taken together, each with the label of its first
\* occurrence.
RECURSIVE DocumentOrderFields(_, _)
DocumentOrderFields(els, fieldMap) ==
    IF els = <<>> THEN fieldMap
    ELSE DocumentOrderFields(Tail(els), PricePass(<<Head(els)>>, PlainPass(<<Head(els)>>, fieldMap)))
C15_DocumentOrder ==
    success = "loaded" => templateFields = DocumentOrderFields(htmlFile, <<>>)

\* C15 (amended): field discovery lists the fields with unique names: first the
\* names of the plain markers in the order of their first occurrence, each with
\* the label of that occurrence, then the names that only composite-price
\* markers carry, in the order of their first occurrence (integer name before
\* decimal name), with the fixed price labels; a later element that repeats a
\* name neither adds a field nor changes its label.
IsPlainAt(els, k, name) == Has(els[k], "field") /\ els[k].field = name /\ name # ""
IsPriceIntAt(els, k, name) == Has(els[k], "int") /\ els[k].int = name /\ name # ""
IsPriceDecAt(els, k, name) ==
    Has(els[k], "int") /\ Has(els[k], "dec") /\ els[k].dec = name /\ name # ""
PlainNames(els) == {els[k].field : k \in {j \in DOMAIN els : Has(els[j], "field")}} \ {""}
PriceNames(els) ==
    ({els[k].int : k \in {j \in DOMAIN els : Has(els[j], "int")}}
       \cup {els[k].dec : k \in {j \in DOMAIN els : Has(els[j], "int") /\ Has(els[j], "dec")}})
    \ {""}
MinOf(K) == CHOOSE k \in K : \A j \in K : k <= j
FirstPlain(els, name) == MinOf({k \in DOMAIN els : IsPlainAt(els, k, name)})
FirstPrice(els, name) ==
    MinOf({k \in DOMAIN els : IsPriceIntAt(els, k, name) \/ IsPriceDecAt(els, k, name)})
\* the place of a name in the list: plain names by first element, then price
\* names by first element, the integer name of an element before its decimal
OrderKey(els, name) ==
    IF name \in PlainNames(els) THEN FirstPlain(els, name)
    ELSE Len(els) + 2 * FirstPrice(els, name)
         + (IF IsPriceIntAt(els, FirstPrice(els, name), name) THEN 0 ELSE 1)
ExpectedField(els, name) ==
    IF name \in PlainNames(els) THEN PlainField(els[FirstPlain(els, name)])
    ELSE IF IsPriceIntAt(els, FirstPrice(els, name), name)
         THEN [name |-> name, label |-> PriceIntLabel]
         ELSE [name |-> name, label |-> PriceDecLabel]
C15_TwoPassOrder ==
    success = "loaded" =>
        /\ {templateFields[i].name : i \in DOMAIN templateFields}
              = PlainNames(htmlFile) \cup PriceNames(htmlFile)
        /\ \A i, j \in DOMAIN templateFields :
              i < j => OrderKey(htmlFile, templateFields[i].name)
                         < OrderKey(htmlFile, templateFields[j].name)
        /\ \A i \in DOMAIN templateFields :
              templateFields[i] = ExpectedField(htmlFile, templateFields[i].name)
\* a template whose price marker stands before two title markers with
\* different labels has been loaded: the title, with its first label, is
\* listed before the price names
C15_Witness ==
    /\ success = "loaded"
    /\ htmlFile = <<[int |-> "sec_price_int", dec |-> "sec_price_decimal"],
                    [field |-> "title", label |-> "L1"],
                    [field |-> "title", label |-> "L2"]>>
    /\ templateFields = <<[name |-> "title", label |-> "L1"],
                          [name |-> "sec_price_int", label |-> PriceIntLabel],
                          [name |-> "sec_price_decimal", label |-> PriceDecLabel]>>


\* C16: after a record with a composite price is bound, the style follows from
\* the length of the integer text alone (at most 2: the 2-digit style, 3 or
\* more: the 3-digit style): the price container, every integer sub-element
\* and every decimal sub-element carry the class of that style and no class of
\* the other style.
HasPrice(data) == Has(data, "sec_price_int") /\ Has(data, "sec_price_decimal")
BoundInt == ToStr(Pick(Rec(jsonData, 0), EditsOf(editedValues, 0), "sec_price_int"))
StyleClasses(is2) ==
    IF is2 THEN {"price--2digits", "price-int-2", "price-decimal-2"}
    ELSE {"price--3digits", "price-int-3", "price-decimal-3"}
AllStyleClasses == StyleClasses(TRUE) \cup StyleClasses(FALSE)
C16_StyleByLength ==
    (pc = "bound" /\ HasPrice(Rec(jsonData, 0))) =>
        LET own == StyleClasses(Len(BoundInt) <= 2)
            kids == exportDoc.price.kids
        IN /\ exportDoc.price.cls \cap AllStyleClasses = exportDoc.price.cls \cap own
           /\ exportDoc.price.cls \cap own # {}
           /\ \E i \in DOMAIN kids : IsIntSpan(kids[i])
           /\ \E i \in DOMAIN kids : IsDecSpan(kids[i])
           /\ \A i \in DOMAIN kids :
                 (IsIntSpan(kids[i]) \/ IsDecSpan(kids[i]))
                    => kids[i].cls \cap AllStyleClasses \subseteq own
\* the price "5" was bound into a slot that held the 3-digit sub-elements
\* before the 2-digit ones: the container is in the 2-digit style, the one
\* integer sub-element left is the 3-digit one, with its old text
C16_Witness ==
    /\ pc = "bound" /\ HasPrice(Rec(jsonData, 0))
    /\ BoundInt = <<"5">>
    /\ exportDoc.price.cls = {"price--2digits"}
    /\ exportDoc.price.kids = <<SignNode, Int3Span, Dec3Span>>


\* C17: after a record with a composite price is bound, whatever the slot held
\* before, the slot holds exactly one integer sub-element and exactly one
\* decimal sub-element, no legacy text node and no legacy .decimal element, and
\* the decimal text starts with exactly one ".".
CountOf(kids, C) == Cardinality({i \in DOMAIN kids : HasAny(kids[i], C)})
IsLegacyNode(n) ==
    \/ (n.tag = "text" /\ ~IsBlank(n.text))
    \/ (HasCls(n, "decimal") /\ ~IsDecSpan(n))
OneLeadingDot(text) ==
    /\ Len(text) >= 1 /\ text[1] = "."
    /\ (Len(text) >= 2 => text[2] # ".")
C17_OneIntOneDec ==
    (pc = "bound" /\ HasPrice(Rec(jsonData, 0))) =>
        LET kids == exportDoc.price.kids
        IN /\ CountOf(kids, IntCls) = 1
           /\ CountOf(kids, DecCls) = 1
           /\ \A i \in DOMAIN kids : ~IsLegacyNode(kids[i])
           /\ OneLeadingDot(TextOf(kids, DecCls))
\* the decimal "..5" was bound into the legacy structure: one integer and one
\* decimal sub-element, the legacy nodes gone, the decimal text "..5"
C17_Witness ==
    /\ pc = "bound" /\ HasPrice(Rec(jsonData, 0))
    /\ Rec(jsonData, 0).sec_price_decimal = S(<<".", ".", "5">>)
    /\ ~Has(EditsOf(editedValues, 0), "sec_price_decimal")
    /\ exportDoc.price.kids = <<SignNode, Span({"price-int-3"}, <<"1", "0", "0">>),
                                Span({"price-decimal-3"}, <<".", ".", "5">>)>>


\* C18: binding is idempotent: binding the record that has just been bound
\* once more, with the same overlay, leaves the document as it is (texts,
\* image sources, the price slot's classes and sub-elements, the image nodes of
\* the groups with their order, visibility and sources).
C18_Idempotent ==
    pc = "bound" =>
        BindExport(htmlContent, exportDoc, Rec(jsonData, 0), EditsOf(editedValues, 0))
            = exportDoc

\* the price 100 was bound into a slot that held the 3-digit sub-elements
\* before the 2-digit ones: the slot still shows "123", and a second binding
\* of the same record changes it
C18_Witness ==
    /\ pc = "bound" /\ HasPrice(Rec(jsonData, 0))
    /\ BoundInt = <<"1", "0", "0">>
    /\ exportDoc.price.kids = <<SignNode, Int3Span, Dec3Span>>
    /\ ShownInt(BindExport(htmlContent, exportDoc, Rec(jsonData, 0),
                           EditsOf(editedValues, 0))) = <<"1", "0", "0">>


\* C19: for the main-product group and for the gift group alike, the effective
\* image count of a bound record is its quantity when one is given, else the
\* number of its sources, else 1, and the group shows the images that this
\* count gives.
EffectiveCount(data, edits, srcField, qtyField) ==
    IF Given(data, edits, qtyField) THEN ToNumber(Pick(data, edits, qtyField))
    ELSE LET srcs == BaseImgs(Pick(data, edits, srcField))
         IN Num(IF Len(srcs) > 0 THEN Len(srcs) ELSE 1)
GiftSrcs(doc) == [i \in 1..Len(doc.gift.imgs) |-> doc.gift.imgs[i].src]
C19_EffectiveCount ==
    pc = "bound" =>
        LET data == Rec(jsonData, 0)
            edits == EditsOf(editedValues, 0)
            pn == EffectiveCount(data, edits, "product_main_src", "product_main_qty")
            gn == EffectiveCount(data, edits, "gift_products_src", "gift_products_qty")
        IN /\ Has(data, "product_main_src") =>
                 /\ ProductQty(data, edits) = pn
                 /\ VisibleSrcs(exportDoc.product.imgs)
                       = GroupImgs(ProductBase(data, edits), pn)
           /\ Has(data, "gift_products_src") =>
                 /\ GiftQty(data, edits, "gift_products_qty") = gn
                 /\ GiftSrcs(exportDoc) = GroupImgs(GiftBase(data, edits), gn)
\* a gift group of three sources and no quantity has been bound: one image
C19_Witness ==
    /\ pc = "bound"
    /\ Rec(jsonData, 0) = [gift_products_src |-> A(<<<<"a">>, <<"b">>, <<"c">>>>)]
    /\ ~Has(EditsOf(editedValues, 0), "gift_products_qty")
    /\ GiftSrcs(exportDoc) = <<<<"a">>>>

\* C20: for a bound group with a quantity: one source and a quantity above 1
\* show the source qty times; several sources show the first min(qty, number
\* of sources) of them in their order, for every quantity, 0 included.
ShownAsStated(srcs, qty, shown) ==
    /\ (Len(srcs) = 1 /\ qty > 1) => shown = Fill(qty, srcs[1])
    /\ Len(srcs) > 1 => shown = SubSeq(srcs, 1, Min2(qty, Len(srcs)))
C20_ReplicateOrTruncate ==
    pc = "bound" =>
        LET data == Rec(jsonData, 0)
            edits == EditsOf(editedValues, 0)
        IN /\ (Has(data, "product_main_src") /\ Given(data, edits, "product_main_qty")) =>
                 ShownAsStated(ProductBase(data, edits), ProductQty(data, edits).v,
                               VisibleSrcs(exportDoc.product.imgs))
           /\ (Has(data, "gift_products_src") /\ Given(data, edits, "gift_products_qty")) =>
                 ShownAsStated(GiftBase(data, edits),
                               GiftQty(data, edits, "gift_products_qty").v,
                               GiftSrcs(exportDoc))
\* a main-product group of two sources with the quantity 0 has been bound: the
\* first source is shown
C20_Witness ==
    /\ pc = "bound"
    /\ Rec(jsonData, 0) = [product_main_src |-> A(<<<<"a">>, <<"b">>>>),
                           product_main_qty |-> N(0)]
    /\ ~Has(EditsOf(editedValues, 0), "product_main_qty")
    /\ VisibleSrcs(exportDoc.product.imgs) = <<<<"a">>>>


\* C21: when a group (main-product or gift) is bound with needed
\* count n into a container that holds k >= 1 image nodes, no node is deleted:
\* the nodes are reused and the last one cloned while k < n, exactly n are
\* visible and the surplus is hidden; nodes are built anew only when the
\* container held none; so the number of nodes of a container never decreases.
ProductNeed == Len(GroupImgs(ProductBase(Rec(jsonData, 0), EditsOf(editedValues, 0)),
                             ProductQty(Rec(jsonData, 0), EditsOf(editedValues, 0))))
IsProductBind == pc = "idle" /\ pc' = "bound" /\ Has(Rec(jsonData, 0), "product_main_src")
ProductReused ==
    LET old == exportDoc.product.imgs
        new == exportDoc'.product.imgs
        k == Len(old)
        n == ProductNeed
    IN /\ Len(new) >= k
       /\ VisibleCount(new) = n
       /\ \A i \in DOMAIN new : new[i].hidden <=> i > n
       /\ k >= 1 =>
             /\ Len(new) = Max2(k, n)
             /\ \A i \in 1..k : new[i].cls = old[i].cls
             /\ \A i \in (k + 1)..Len(new) : new[i].cls = old[k].cls
       /\ k = 0 =>
             /\ Len(new) = n
             /\ \A i \in DOMAIN new : new[i].cls = ""
C21_Step ==
    /\ IsProductBind => ProductReused
    /\ Len(exportDoc'.product.imgs) >= Len(exportDoc.product.imgs)
    /\ Len(exportDoc'.gift.imgs) >= Len(exportDoc.gift.imgs)
C21_NoPlaceholderDeleted == [][C21_Step]_vars

GiftNeed == Len(GroupImgs(GiftBase(Rec(jsonData, 0), EditsOf(editedValues, 0)),
                          GiftQty(Rec(jsonData, 0), EditsOf(editedValues, 0),
                                  "gift_products_qty")))
\* a gift group of three images has been bound, and a gift record that needs
\* one image is up for binding: the bind will empty the container and leave
\* one node
C21_Witness ==
    /\ pc = "idle" /\ nUser >= 1
    /\ Len(exportDoc.gift.imgs) = 3
    /\ Has(Rec(jsonData, 0), "gift_products_src")
    /\ GiftNeed = 1

\* C22: a reference that is already an inline payload (data:) or an absolute
\* network URL (http://, https://) comes out of resolution unchanged, in the
\* markup, in the stylesheet and in the values of a record, whatever keys the
\* bundle holds.
PathsOf(value) ==
    IF value.t = "arr" THEN value.v
    ELSE IF value.t = "str" THEN <<value.v>> ELSE <<>>
MarkupPassthrough ==
    \A i \in DOMAIN zipFile.imgs :
       IsInlineOrAbsolute(zipFile.imgs[i]) => processed.html[i] = zipFile.imgs[i]
StylesheetPassthrough ==
    \A i \in DOMAIN zipFile.urls :
       IsInlineOrAbsolute(zipFile.urls[i]) => processed.css[i] = zipFile.urls[i]
RecordPassthrough ==
    \A k \in DOMAIN zipFile.records :
       \A f \in DOMAIN zipFile.records[k] :
          \A i \in DOMAIN PathsOf(zipFile.records[k][f]) :
             IsInlineOrAbsolute(PathsOf(zipFile.records[k][f])[i])
                => PathsOf(jsonData[k + 1][f])[i] = PathsOf(zipFile.records[k][f])[i]
C22_Passthrough ==
    success = "loaded"
       => MarkupPassthrough /\ StylesheetPassthrough /\ RecordPassthrough

\* an archive with the image x.png in a folder, and a record whose image is
\* an absolute URL ending in the same file name
C22_Witness ==
    /\ success = "loaded"
    /\ zipFile.files = <<[name |-> <<"a", "/", "x">>, kind |-> "image", body |-> <<"1">>]>>
    /\ zipFile.records[1].product_main_src = S(HttpScheme \o <<"h", "/", "x">>)
    /\ jsonData[2].product_main_src = S(DataUrl(zipFile.files[1]))

\* C23: a reference that is neither inline nor absolute is looked up under
\* the keys original, normalized (leading ./ and ../ stripped), ./ +
\* normalized and bare file name, in that order; the first key present gives
\* the payload, and with none present the reference is left as it is; the
\* markup, the stylesheet and the record values follow the same rule.
StatedResolve(ref, map) ==
    LET normalized == Strip(Strip(ref, DotSlash), DotDotSlash)
        found == FirstOf(map, <<ref, normalized, DotSlash \o normalized, Pop(normalized)>>)
    IN  IF found = <<>> THEN ref ELSE found
MarkupAsStated ==
    \A i \in DOMAIN zipFile.imgs :
       ~IsInlineOrAbsolute(zipFile.imgs[i])
          => processed.html[i] = StatedResolve(zipFile.imgs[i], ImageMap(zipFile))
StylesheetAsStated ==
    \A i \in DOMAIN zipFile.urls :
       ~IsInlineOrAbsolute(zipFile.urls[i])
          => processed.css[i] = StatedResolve(zipFile.urls[i], ResourceMap(zipFile))
RecordAsStated ==
    \A k \in DOMAIN zipFile.records :
       \A f \in DOMAIN zipFile.records[k] :
          \A i \in DOMAIN PathsOf(zipFile.records[k][f]) :
             ~IsInlineOrAbsolute(PathsOf(zipFile.records[k][f])[i])
                => PathsOf(jsonData[k + 1][f])[i]
                     = StatedResolve(PathsOf(zipFile.records[k][f])[i], ImageMap(zipFile))
C23_CandidateOrder ==
    success = "loaded" => MarkupAsStated /\ StylesheetAsStated /\ RecordAsStated

\* the images a/x and x, and the reference ../a/x in the markup and in a record
C23_Witness ==
    /\ success = "loaded"
    /\ zipFile.html = <<"i">>
    /\ zipFile.files = <<[name |-> <<"a", "/", "x">>, kind |-> "image", body |-> <<"1">>],
                         [name |-> <<"x">>, kind |-> "image", body |-> <<"2">>]>>
    /\ zipFile.imgs = <<DotDotSlash \o <<"a", "/", "x">>>>
    /\ zipFile.records[1].product_main_src = S(DotDotSlash \o <<"a", "/", "x">>)
    /\ processed.html[1] = DataUrl(zipFile.files[1])
    /\ jsonData[2].product_main_src = S(DataUrl(zipFile.files[2]))

\* C24: a reference written in any key form of a file of the bundle (its
\* archive path, that path without a leading ./, with ./ prepended, relative
\* to the template's directory, or its bare file name) is resolved to that
\* file's own payload, also when several files share a file name.
KeyForms(entry, htmlDir) ==
    LET normPath == Strip(entry.name, DotSlash)
    IN  {entry.name, normPath, DotSlash \o normPath, Pop(normPath)}
        \cup (IF htmlDir # <<>> /\ StartsWith(entry.name, htmlDir \o <<"/">>)
              THEN {Strip(entry.name, htmlDir \o <<"/">>)} ELSE {})
OwnPayload ==
    \A n \in DOMAIN zipFile.files :
       LET entry == zipFile.files[n]
       IN  /\ \A i \in DOMAIN zipFile.imgs :
                 entry.kind = "image" /\ zipFile.imgs[i] \in KeyForms(entry, HtmlDir(zipFile))
                    => processed.html[i] = DataUrl(entry)
           /\ \A i \in DOMAIN zipFile.urls :
                 zipFile.urls[i] \in KeyForms(entry, HtmlDir(zipFile))
                    => processed.css[i] = DataUrl(entry)
C24_OwnPayload == success = "loaded" => OwnPayload

\* the images x and a/x, in this order, and the reference x
C24_Witness ==
    /\ success = "loaded"
    /\ zipFile.html = <<"i">>
    /\ zipFile.files = <<[name |-> <<"x">>, kind |-> "image", body |-> <<"1">>],
                         [name |-> <<"a", "/", "x">>, kind |-> "image", body |-> <<"2">>]>>
    /\ zipFile.imgs = <<<<"x">>>>
    /\ processed.html[1] = DataUrl(zipFile.files[2])

\* C25: a record whose binding raises an exception part-way is a failed
\* record: the loop does not capture it into the archive and does not count
\* it as a success, and goes on with the next record.
BindingThrows(doc, data, edits) ==
    \/ productThrows(doc, data, edits)
    \/ giftThrows(doc, data, edits)
C25_Step ==
    run'.successCount > run.successCount
       => ~BindingThrows(exportDoc, Rec(run.data, run.i), EditsOf(run.edits, run.i))
C25_ThrowingRecordSkipped == [][C25_Step]_vars

\* the run is over and its archive holds the record with the negative quantity
C25_Witness ==
    /\ pc = "idle" /\ download.made
    /\ \E i \in run.added :
          /\ Rec(run.data, i) = RecT
          /\ \E n \in DOMAIN download.entries : download.entries[n].rec = i

\* C27: every batch run that starts ends, whatever the length of the batch
\* and whichever captures fail, a failing archive build included: the
\* generating flag goes back to false, and the step that ends the run reports
\* exactly one outcome, the success summary or an error.
RunEnds == isGenerating /\ ~isGenerating'
C27_Step ==
    RunEnds =>
       /\ pc' = "idle"
       /\ \/ success' = "generated" /\ success # "generated" /\ error' = error
          \/ error' \in {"none", "exception"} /\ error = "" /\ success' = success
C27_RunEnds == (isGenerating ~> ~isGenerating) /\ [][C27_Step]_vars

\* a run over two records, one capture failed, ended by the failing archive build
C27_Witness ==
    /\ ~isGenerating /\ nRuns = 1 /\ pc = "idle"
    /\ Len(run.data) = 2 /\ run.failed # {} /\ run.added # {}
    /\ error = "exception" /\ ~download.made

\* C28: at most one batch run is in flight: as long as a loop is in flight the
\* generating flag is set and the generate button is disabled, so that no
\* further request starts a second loop over the export document.
GenerateDisabled == isGenerating \/ Len(jsonData) = 0 \/ ~templateAssets
C28_OneRunInFlight ==
    /\ pc # "idle" => isGenerating /\ GenerateDisabled
    /\ isGenerating => pc # "idle" /\ ~ENABLED GenStart

\* the loop is at the capture of its second record; a batch and a template are
\* loaded, and the flag alone keeps the button disabled
C28_Witness ==
    /\ pc = "capture" /\ run.i = 1
    /\ isGenerating
    /\ Len(jsonData) > 0 /\ templateAssets /\ htmlContent

\* C26: at the moment a record is captured in a batch run, no element of the
\* export iframe carries the field-highlight marker: the shot that a capture
\* step puts into the archive has no highlighted element, in single view and in
\* multi-view, whatever field selection, banner selection or re-highlight
\* effect comes between the steps of the loop.
Captured == pc = "capture" /\ pc' = "loop" /\ run'.successCount = run.successCount + 1

C26_Step == Captured => run'.zip[run.fileName].shot.hl = {}

C26_CaptureWithoutHighlight == [][C26_Step]_vars

\* multi-view, the loop has moved the cursor past the selected banner, a field
\* was highlighted after the loop had cleared the export iframe, and the shot
\* of that record is in the archive with the highlight
C26_Witness ==
    /\ isMultiView /\ selectedBannerIndex # NoBanner
    /\ selectedBannerIndex < currentIndex
    /\ selectedField # ""
    /\ \E n \in DOMAIN run.zip :
          /\ run.zip[n].rec = currentIndex
          /\ run.zip[n].shot.hl = {SlotOf(selectedField)}

\* C29: the cursor bound: after any sequence of batch loads, failed loads,
\* previous/next navigation, view switches and batch runs, whenever the loaded
\* batch is not empty the cursor is an index of it, 0 <= currentIndex < number
\* of records; and in multi-view a navigation step never moves the cursor past
\* max(0, number of records - 4).
CursorInBatch ==
    Len(jsonData) > 0 => (0 <= currentIndex /\ currentIndex < Len(jsonData))

Navigated ==
    /\ nUser' = nUser + 1
    /\ jsonData' = jsonData /\ isMultiView' = isMultiView
    /\ currentIndex' # currentIndex

C29_Step == (isMultiView /\ Navigated) => currentIndex' <= Max2(0, Len(jsonData) - 4)

C29_CursorBound == [](CursorInBatch) /\ [][C29_Step]_vars

\* a run over three records is at its third record while the batch that is
\* loaded by now has two
C29_Witness ==
    /\ isGenerating /\ pc = "delay"
    /\ Len(run.data) = 3 /\ Len(jsonData) = 2
    /\ currentIndex = 2

\* C30: in multi-view the selected banner index, when it is set, designates a
\* record shown in the window: currentIndex <= selectedBannerIndex <=
\* currentIndex + 3 and selectedBannerIndex < number of records, after any
\* sequence of navigation, banner selection, batch loads, view switches and
\* batch runs; hence an edit of the user is applied to the preview of the grid
\* that shows the record whose overlay entry the edit updates.
SelectionInWindow ==
    (isMultiView /\ selectedBannerIndex # NoBanner) =>
        /\ currentIndex <= selectedBannerIndex
        /\ selectedBannerIndex <= currentIndex + 3
        /\ selectedBannerIndex < Len(jsonData)

Edited ==
    /\ nUser' = nUser + 1
    /\ editedValues' # editedValues
    /\ currentIndex' = currentIndex

C30_Step == (isMultiView /\ Edited) => TargetCell(getActiveIndex) # NoBanner

C30_SelectionShown == [](SelectionInWindow) /\ [][C30_Step]_vars

\* multi-view during a run: the loop has moved the window past the selected
\* banner and bound record 1 to the export iframe; the user's edit that came
\* after went into the overlay of the selected banner 0 and into the export
\* iframe, and into no preview of the grid
C30_Witness ==
    /\ isMultiView /\ isGenerating
    /\ selectedBannerIndex = 0 /\ currentIndex = 1 /\ run.i = 1
    /\ EditsOf(run.edits, 0) = <<>>
    /\ Has(EditsOf(editedValues, 0), "title")
    /\ ReadField(exportDoc, "title") = EditValue("title")
    /\ \A idx \in Cells : multi[idx].mounted => ReadField(multi[idx].doc, "title") # EditValue("title")

====
